---- MODULE Spec2Model ----
(***************************************************************************)
(* Model of the incident-response engines: the playbook orchestrator       *)
(* (internal/services/orchestrator.go), the action registry                *)
(* (internal/services/actions.go) and the detection engine                 *)
(* (internal/services/detection.go, internal/handlers/events.go).          *)
(*                                                                         *)
(* Representation.                                                         *)
(*  - A Go string is a sequence of tokens.  The characters "{", "}", "."   *)
(*    and " " are tokens of their own; every other token is a chunk of     *)
(*    text that contains none of these four characters.                    *)
(*  - A Go interface{} value is a record [t |-> tag, v |-> payload]:       *)
(*      "nil"  nil                                                         *)
(*      "str"  string                       v: the string                  *)
(*      "err"  error                        v: err.Error()                 *)
(*      "int"  int, "bool" bool                                            *)
(*      "float" float64 holding a whole number below 10^6  v: the number   *)
(*      "map"  map[string]interface{}       v: function key -> value       *)
(*      "smap" map[string]string            v: function key -> string      *)
(*      "other" a value of any other Go type v: its %v text                *)
(*  - Storage writes whose outcome the code inspects (db.Create(...).Error)*)
(*    have both outcomes; writes whose outcome the code discards are       *)
(*    modelled by their successful outcome.                                *)
(***************************************************************************)
EXTENDS Integers, Sequences, FiniteSets, TLC

---------------------------------------------------------------------------
(* Bounds *)

\* iterations of the interpolation loop explored before a scan counts as
\* not terminating
InterpFuel == 8

\* steps of a playbook file
MaxSteps == 3

---------------------------------------------------------------------------
(* Values *)

Nil == [t |-> "nil", v |-> <<>>]
Str(s) == [t |-> "str", v |-> s]
Err(m) == [t |-> "err", v |-> m]
IntV(n) == [t |-> "int", v |-> n]
BoolV(b) == [t |-> "bool", v |-> b]
Float(n) == [t |-> "float", v |-> n]
Map(f) == [t |-> "map", v |-> f]
SMap(f) == [t |-> "smap", v |-> f]
Other(s) == [t |-> "other", v |-> s]
List(elems) == [t |-> "list", v |-> elems]

EmptyMap == [k \in {} |-> Nil]

\* m[key] of a Go map: the zero value nil when the key is absent
MapGet(m, key) == IF key \in DOMAIN m THEN m[key] ELSE Nil

\* m[key] = val
MapPut(m, key, val) == [k \in (DOMAIN m) \cup {key} |-> IF k = key THEN val ELSE m[k]]

RECURSIVE Concat(_)
Concat(ss) == IF ss = <<>> THEN <<>> ELSE Head(ss) \o Concat(Tail(ss))

\* keys of a map in the order fmt prints them (sorted); KeyOrder lists the
\* keys the model uses in ascending order
KeyOrder == << <<"action">>, <<"assigned_to">>, <<"attempts">>, <<"block">>,
               <<"body">>, <<"bogus">>, <<"call">>, <<"channel">>,
               <<"count">>, <<"detail">>, <<"duration">>, <<"error">>,
               <<"exit_code">>, <<"fallback">>, <<"headers">>,
               <<"incident_id">>, <<"inputs">>, <<"ip">>, <<"ip_address">>,
               <<"message">>, <<"meta">>, <<"name">>, <<"note">>, <<"notes">>,
               <<"open">>, <<"output">>, <<"owner">>, <<"priority">>,
               <<"report">>, <<"script">>, <<"simulated">>, <<"source">>,
               <<"status">>, <<"status_code">>, <<"stderr">>, <<"stdout">>,
               <<"steps">>, <<"success">>, <<"title">>, <<"url">>, <<"user">>,
               <<"username">>, <<"who">> >>

SortedKeys(m) == SelectSeq(KeyOrder, LAMBDA k : k \in DOMAIN m)

\* fmt.Sprintf("%v", value)
RECURSIVE Sprintf_v(_)
Sprintf_v(val) ==
    CASE val.t = "nil" -> <<"<nil>">>
      [] val.t = "str" -> val.v
      [] val.t = "err" -> val.v
      [] val.t = "other" -> val.v
      [] val.t = "int" -> <<ToString(val.v)>>
      [] val.t = "float" -> <<ToString(val.v)>>
      [] val.t = "bool" -> IF val.v THEN <<"true">> ELSE <<"false">>
      [] val.t = "list" ->
            <<"[">> \o
            Concat([i \in 1..Len(val.v) |->
                (IF i > 1 THEN <<" ">> ELSE <<>>) \o Sprintf_v(val.v[i])])
            \o <<"]">>
      [] val.t = "smap" ->
            LET ks == SortedKeys(val.v)
            IN <<"map[">> \o
               Concat([i \in 1..Len(ks) |->
                   (IF i > 1 THEN <<" ">> ELSE <<>>) \o ks[i] \o <<":">> \o val.v[ks[i]]])
               \o <<"]">>
      [] val.t = "map" ->
            LET ks == SortedKeys(val.v)
            IN <<"map[">> \o
               Concat([i \in 1..Len(ks) |->
                   (IF i > 1 THEN <<" ">> ELSE <<>>) \o ks[i] \o <<":">>
                       \o Sprintf_v(val.v[ks[i]])])
               \o <<"]">>

---------------------------------------------------------------------------
(* Template interpolation: orchestrator.go *)

\* strings.Index(s[from:], sub) + from for a two-character sub <<c, c>>,
\* as a 1-based position; 0 when there is no occurrence (Go's -1)
IndexPair(s, c, from) ==
    LET hits == {i \in from..(Len(s) - 1) : s[i] = c /\ s[i + 1] = c}
    IN IF hits = {} THEN 0 ELSE CHOOSE i \in hits : \A j \in hits : i <= j

\* strings.TrimSpace
RECURSIVE TrimLeft(_)
TrimLeft(s) == IF s # <<>> /\ Head(s) = " " THEN TrimLeft(Tail(s)) ELSE s

RECURSIVE TrimRight(_)
TrimRight(s) ==
    IF s # <<>> /\ s[Len(s)] = " " THEN TrimRight(SubSeq(s, 1, Len(s) - 1)) ELSE s

TrimSpace(s) == TrimRight(TrimLeft(s))

\* strings.Split(s, "."): always at least one (possibly empty) part
RECURSIVE Split(_)
Split(s) ==
    LET dots == {i \in 1..Len(s) : s[i] = "."}
    IN IF dots = {} THEN <<s>>
       ELSE LET d == CHOOSE i \in dots : \A j \in dots : i <= j
            IN <<SubSeq(s, 1, d - 1)>> \o Split(SubSeq(s, d + 1, Len(s)))

\* the loop of resolveVariable over the remaining parts
RECURSIVE resolveParts(_, _, _)
resolveParts(parts, current, path) ==
    IF parts = <<>> THEN current
    ELSE IF current.t = "map"
         THEN resolveParts(Tail(parts), MapGet(current.v, Head(parts)), path)
         ELSE Str(path)

\* mutant: a value that is not a string is not looked at
resolveVariableStrings(path, context) ==
    LET value == resolveParts(Split(path), context, path)
    IN IF value.t = "str" THEN value ELSE Nil

resolveVariable(path, context) == resolveParts(Split(path), context, path)

RECURSIVE interpolateLoop(_, _, _)
interpolateLoop(result, context, fuel) ==
    LET start == IndexPair(result, "{", 1)
    IN IF start = 0 THEN result
       ELSE LET end == IndexPair(result, "}", start)
            IN IF end = 0 THEN result
               ELSE IF fuel = 0 THEN result
               ELSE LET varPath == TrimSpace(SubSeq(result, start + 2, end - 1))
                        value == resolveVariable(varPath, context)
                    IN interpolateLoop(
                           SubSeq(result, 1, start - 1) \o Sprintf_v(value)
                               \o SubSeq(result, end + 2, Len(result)),
                           context, fuel - 1)

interpolateString(s, context) == interpolateLoop(s, context, InterpFuel)

\* the loop of interpolateString is still running after fuel iterations
RECURSIVE loopRuns(_, _, _)
loopRuns(result, context, fuel) ==
    LET start == IndexPair(result, "{", 1)
        end == IndexPair(result, "}", start)
    IN IF start = 0 \/ end = 0 THEN FALSE
       ELSE IF fuel = 0 THEN TRUE
       ELSE loopRuns(SubSeq(result, 1, start - 1)
                       \o Sprintf_v(resolveVariable(
                              TrimSpace(SubSeq(result, start + 2, end - 1)), context))
                       \o SubSeq(result, end + 2, Len(result)),
                     context, fuel - 1)

\* interpolateParameters does not return within the explored iterations
RECURSIVE interpolationHangs(_, _)
interpolationHangs(params, context) ==
    \E key \in DOMAIN params :
        \/ params[key].t = "str" /\ loopRuns(params[key].v, context, InterpFuel)
        \/ params[key].t = "map" /\ interpolationHangs(params[key].v, context)

RECURSIVE interpolateParameters(_, _)
\* mutant: the strings of a list are interpolated as well
interpolateParametersIntoLists(params, context) ==
    [key \in DOMAIN params |->
        CASE params[key].t = "str" -> Str(interpolateString(params[key].v, context))
          [] params[key].t = "map" -> Map(interpolateParameters(params[key].v, context))
          [] params[key].t = "list" ->
                List([i \in DOMAIN params[key].v |->
                        IF params[key].v[i].t = "str"
                        THEN Str(interpolateString(params[key].v[i].v, context))
                        ELSE params[key].v[i]])
          [] OTHER -> params[key]]

\* mutant: a value that is neither a string nor a map is written out as text
interpolateParametersStringify(params, context) ==
    [key \in DOMAIN params |->
        CASE params[key].t = "str" -> Str(interpolateString(params[key].v, context))
          [] params[key].t = "map" -> Map(interpolateParameters(params[key].v, context))
          [] OTHER -> Str(Sprintf_v(params[key]))]

interpolateParameters(params, context) ==
    [key \in DOMAIN params |->
        CASE params[key].t = "str" -> Str(interpolateString(params[key].v, context))
          [] params[key].t = "map" -> Map(interpolateParameters(params[key].v, context))
          [] OTHER -> params[key]]

---------------------------------------------------------------------------
(* Action handlers: actions.go, generic actions *)

\* words separated by single spaces, as one string
RECURSIVE Words(_)
Words(ws) ==
    IF Len(ws) <= 1 THEN ws ELSE <<Head(ws), " ">> \o Words(Tail(ws))

getStringParam(params, key, defaultValue) ==
    IF key \in DOMAIN params /\ params[key].t = "str" THEN params[key].v
    ELSE defaultValue

getIntParam(params, key, defaultValue) ==
    IF key \in DOMAIN params /\ params[key].t = "int" THEN params[key].v
    ELSE defaultValue

\* the names NewActionRegistry registers
RegisteredActions ==
    { <<"create_incident">>, <<"notify">>, <<"block_ip">>, <<"log_action">>,
      <<"update_incident">>, <<"ssh_command">>, <<"grafana_query">>,
      <<"prometheus_query">>, <<"ai_analyze">>, <<"http_request">>,
      <<"shell_script">>, <<"webhook">>, <<"python_script">> }

\* uuid.New().String() for the n-th row of a table
NewID(prefix, n) == <<prefix, ToString(n)>>

\* An outcome of a handler: its return values and the incidents table it
\* leaves behind.
Outcome(res, e, incs) == [result |-> res, err |-> e, incidents |-> incs]

\* CreateIncidentAction.Execute
CreateIncidentExecute(params, incs) ==
    LET priority == getStringParam(params, <<"priority">>, <<"medium">>)
        severity == CASE priority = <<"critical">> -> "critical"
                      [] priority = <<"high">> -> "high"
                      [] priority = <<"low">> -> "low"
                      [] OTHER -> "medium"
        id == NewID("inc-", Len(incs) + 1)
        incident == [incident_id |-> id,
                     status |-> "open",
                     severity |-> severity,
                     category |-> getStringParam(params, <<"category">>, <<>>),
                     title |-> getStringParam(params, <<"title">>,
                                              Words(<<"Automated", "Incident">>)),
                     description |-> getStringParam(params, <<"description">>, <<>>),
                     triggered_by_rule |-> <<>>,
                     related_events |-> <<>>,
                     notes |-> <<>>]
    IN { Outcome(SMap(<<"incident_id">> :> id), Nil, Append(incs, incident)),
         Outcome(Nil,
                 Err(Words(<<"failed", "to", "create", "incident:", "database",
                             "error">>)),
                 incs) }

\* NotifyAction.Execute
NotifyExecute(params, incs) ==
    { Outcome(SMap((<<"channel">> :> getStringParam(params, <<"channel">>, <<"console">>))
                @@ (<<"message">> :> getStringParam(params, <<"message">>,
                                                    <<"Notification">>))
                @@ (<<"status">> :> <<"sent">>)),
              Nil, incs) }

\* BlockIPAction.Execute
BlockIPExecute(params, incs) ==
    LET ipAddress == getStringParam(params, <<"ip_address">>, <<>>)
    IN IF ipAddress = <<>>
       THEN { Outcome(Nil, Err(Words(<<"ip_address", "parameter", "is", "required">>)),
                      incs) }
       ELSE { Outcome(Map((<<"ip_address">> :> Str(ipAddress))
                       @@ (<<"duration">> :> IntV(getIntParam(params, <<"duration">>, 3600)))
                       @@ (<<"action">> :> Str(<<"blocked">>))
                       @@ (<<"simulated">> :> BoolV(TRUE))),
                      Nil, incs) }

\* the status codes a remote end answers with
StatusCodes == {200, 500}

\* HTTPRequestAction.Execute: the request fails in transport, or the remote
\* end answers with some status code
HTTPRequestExecute(params, incs) ==
    LET url == getStringParam(params, <<"url">>, <<>>)
    IN IF url = <<>>
       THEN { Outcome(Nil, Err(Words(<<"url", "parameter", "is", "required">>)), incs) }
       ELSE { Outcome(Nil, Err(Words(<<"request", "failed:", "connection", "refused">>)),
                      incs) }
            \cup
            { Outcome(Map((<<"status_code">> :> IntV(code))
                       @@ (<<"headers">> :> Other(<<"map[]">>))
                       @@ (<<"body">> :> Str(<<"ok">>))
                       @@ (<<"success">> :> BoolV(code >= 200 /\ code < 300))),
                      Nil, incs) : code \in StatusCodes }

\* the exit codes of a script
ExitCodes == {0, 3}

\* what a script writes to its standard output
Written == <<"done">>

\* what the script can write to its standard output: the words after echo,
\* and for any other script something or nothing
stdoutOf(script) ==
    IF Len(script) > 2 /\ SubSeq(script, 1, 2) = <<"echo", " ">>
    THEN { SubSeq(script, 3, Len(script)) }
    ELSE { Written, <<>> }

\* ShellScriptAction.Execute: the command cannot be started, runs into the
\* timeout, or exits with some code.  The output buffers are attached after
\* the goroutine that runs the command has been started, so what the script
\* wrote is captured or is not.
ShellScriptExecute(params, incs) ==
    LET script == getStringParam(params, <<"script">>, <<>>)
        timeout == getIntParam(params, <<"timeout">>, 300)
    IN IF script = <<>>
       THEN { Outcome(Nil, Err(Words(<<"script", "parameter", "is", "required">>)),
                      incs) }
       ELSE { Outcome(Nil,
                      Err(Words(<<"script", "execution", "failed:", "fork/exec:",
                                  "no", "such", "file">>)),
                      incs),
              Outcome(Nil,
                      Err(Words(<<"script", "execution", "timed", "out", "after",
                                  ToString(timeout), "seconds">>)),
                      incs) }
            \cup
            { Outcome(Map((<<"exit_code">> :> IntV(code))
                       @@ (<<"stdout">> :> Str(out))
                       @@ (<<"stderr">> :> Str(<<>>))
                       @@ (<<"success">> :> BoolV(code = 0))),
                      Nil, incs) :
                  code \in ExitCodes, out \in stdoutOf(script) \cup { <<>> } }

\* the interpreters that can be started
Interpreters == { <<"python3">> }

\* PythonScriptAction.Execute: the interpreter is started with the script
\* and the arguments, and an error of the command other than an exit
\* status leaves exitCode at 0
PythonScriptExecute(params, incs) ==
    LET script == getStringParam(params, <<"script">>, <<>>)
        pythonPath == getStringParam(params, <<"python">>, <<"python3">>)
        report(code, out) ==
            Outcome(Map((<<"exit_code">> :> IntV(code))
                     @@ (<<"output">> :> Str(out))
                     @@ (<<"success">> :> BoolV(code = 0))),
                    Nil, incs)
    IN IF script = <<>>
       THEN { Outcome(Nil, Err(Words(<<"script", "parameter", "is", "required">>)),
                      incs) }
       ELSE IF pythonPath \notin Interpreters
       THEN { report(0, <<>>) }
       ELSE { report(code, out) : code \in ExitCodes, out \in { Written, <<>> } }

\* action.Execute(params) of the handler registered under actionType
HandlerExecute(actionType, params, incs) ==
    CASE actionType = <<"create_incident">> -> CreateIncidentExecute(params, incs)
      [] actionType = <<"notify">> -> NotifyExecute(params, incs)
      [] actionType = <<"block_ip">> -> BlockIPExecute(params, incs)
      [] actionType = <<"http_request">> -> HTTPRequestExecute(params, incs)
      [] actionType = <<"shell_script">> -> ShellScriptExecute(params, incs)
      [] actionType = <<"python_script">> -> PythonScriptExecute(params, incs)

---------------------------------------------------------------------------
(* Playbook files *)

\* "{{ a.b.c }}" and "{{a.b.c}}"
RECURSIVE Dotted(_)
Dotted(parts) ==
    IF Len(parts) <= 1 THEN parts ELSE <<Head(parts), ".">> \o Dotted(Tail(parts))

Tpl(parts) == <<"{", "{", " ">> \o Dotted(parts) \o <<" ", "}", "}">>
TplTight(parts) == <<"{", "{">> \o Dotted(parts) \o <<"}", "}">>

PlaybookStep(id, action, parameters, onFailure, condition) ==
    [id |-> id, action |-> action, parameters |-> parameters,
     on_failure |-> onFailure, condition |-> condition]

\* steps a playbook file is written from
StepPool ==
    { PlaybookStep(<<"block">>, <<"block_ip">>,
                   <<"ip_address">> :> Str(Tpl(<<"inputs", "ip">>)), <<>>, <<>>) }
    \cup
    { PlaybookStep(<<"call">>, <<"http_request">>,
                   (<<"url">> :> Str(<<"http://fw/block">>))
                   @@ (<<"body">> :> Map(<<"ip">> :> Str(TplTight(<<"inputs", "ip">>)))),
                   <<"continue">>, <<>>) }
    \cup
    { PlaybookStep(<<"bogus">>, <<"quarantine">>, EmptyMap, <<"continue">>, <<>>) }
    \cup
    { PlaybookStep(<<"open">>, <<"create_incident">>,
                   (<<"title">> :> Str(<<"Blocked", " ">> \o Tpl(<<"inputs", "ip">>)))
                   @@ (<<"priority">> :> Str(<<"high">>)),
                   <<"abort">>, <<>>),
      PlaybookStep(<<"report">>, <<"notify">>,
                   (<<"message">> :> Str(<<"call:", " ">>
                                          \o Tpl(<<"steps", "call", "error">>)))
                   @@ (<<"detail">> :>
                         Map((<<"block">> :> Str(TplTight(<<"steps", "block", "error">>)))
                          @@ (<<"bogus">> :> Str(Tpl(<<"steps", "bogus", "error">>)))
                          @@ (<<"open">> :> Str(Tpl(<<"steps", "open", "error">>))))),
                   <<>>, <<>>),
      PlaybookStep(<<"fallback">>, <<"notify">>,
                   <<"message">> :> Str(<<"paging">>),
                   <<>>, Tpl(<<"steps", "call", "error">>)) }

PlaybookInput(name, required) == [name |-> name, required |-> required]

DeclaredInputs ==
    << PlaybookInput(<<"note">>, FALSE), PlaybookInput(<<"ip">>, TRUE),
       PlaybookInput(<<"who">>, TRUE) >>

StepLists == UNION { [1..n -> StepPool] : n \in 1..MaxSteps }

Playbooks == { [id |-> <<"pb">>, inputs |-> DeclaredInputs, steps |-> ss] : ss \in StepLists }

\* a file of the playbooks directory: it parses to a playbook or it does not
File(pb) == [parses |-> TRUE, playbook |-> pb]
BadFile == [parses |-> FALSE, playbook |-> [id |-> <<>>, inputs |-> <<>>, steps |-> <<>>]]

FirstPlaybook == CHOOSE pb \in Playbooks : Len(pb.steps) = 1

PlaybookDirs ==
    { <<File(pb)>> : pb \in Playbooks }
    \cup { <<File(FirstPlaybook), BadFile, File(pb)>> : pb \in Playbooks }
    \cup { <<BadFile>> }

PlaybookIDs == { <<"pb">>, <<"nope">> }

\* the inputs maps a caller passes
InputMaps ==
    { m \in UNION { [ks -> {Str(<<"10", ".", "0", ".", "0", ".", "9">>), Str(<<>>)}]
                     : ks \in SUBSET { <<"note">>, <<"ip">>, <<"who">> } } :
        /\ \A k \in DOMAIN m : k # <<"ip">> => m[k] = Str(<<>>)
        /\ <<"note">> \in DOMAIN m => <<"who">> \notin DOMAIN m }

---------------------------------------------------------------------------
(* Rule files and events: detection.go, events.go, event.go *)

\* the bound on the events ingested or evaluated in one behaviour
MaxEvents == 1

\* the bound on the seconds that pass in one behaviour
MaxClock == 2

\* a Condition of a rule file with the fields the file leaves out at their
\* zero values
Condition(field, operator) ==
    [field |-> field, operator |-> operator, value |-> Nil, values |-> <<>>,
     pattern |-> <<>>, threshold |-> 0, timewindow |-> 0, count_field |-> <<>>]

\* a RuleAction of a rule file, likewise
RuleAction(type) ==
    [type |-> type, priority |-> <<>>, playbook |-> <<>>, channel |-> <<>>,
     channels |-> <<>>, message |-> <<>>]

Rule(id, name, severity, enabled, conditions, actions) ==
    [id |-> id, name |-> name, description |-> Words(<<"rule">> \o id),
     category |-> <<"auth">>, severity |-> severity, enabled |-> enabled,
     conditions |-> conditions, actions |-> actions]

\* repeated failed logins: a create_incident that can fail comes first
BruteForce ==
    Rule(<<"brute">>, Words(<<"Brute", "force">>), <<"High">>, TRUE,
         << [Condition(<<"event_type">>, <<"equals">>)
                EXCEPT !.value = Str(<<"authentication_failed">>)],
            [Condition(<<"event_type">>, <<"count">>)
                EXCEPT !.threshold = 2, !.timewindow = 1] >>,
         << RuleAction(<<"create_incident">>),
            [RuleAction(<<"execute_playbook">>) EXCEPT !.playbook = <<"pb">>],
            [RuleAction(<<"notify">>) EXCEPT !.channel = <<"soc">>] >>)

\* no condition; an action type the engine does not know comes first
CatchAll ==
    Rule(<<"all">>, Words(<<"Every", "event">>), <<"info">>, TRUE,
         <<>>,
         << RuleAction(<<"quarantine">>),
            RuleAction(<<"create_incident">>),
            [RuleAction(<<"notify">>) EXCEPT !.channels = << <<"ops">> >>,
                                             !.message = <<"seen">>] >>)

\* one condition of each remaining operator
Probe ==
    Rule(<<"probe">>, <<"Probe">>, <<"low">>, TRUE,
         << [Condition(<<"source">>, <<"regex">>) EXCEPT !.pattern = <<"fw">>],
            [Condition(<<"severity">>, <<"in">>)
                EXCEPT !.values = << <<"high">>, <<"critical">> >>],
            [Condition(<<"attempts">>, <<"greater_than">>) EXCEPT !.value = Float(3)],
            [Condition(<<"user", ".", "name">>, <<"equals">>)
                EXCEPT !.value = Str(<<"root">>)],
            Condition(<<"source">>, <<"contains">>) >>,
         << RuleAction(<<"notify">>) >>)

Disabled ==
    Rule(<<"off">>, <<"Off">>, <<"critical">>, FALSE, <<>>,
         << RuleAction(<<"create_incident">>) >>)

RuleFile(rule) == [parses |-> TRUE, rule |-> rule]
BadRuleFile == [parses |-> FALSE, rule |-> Disabled]

\* the rule files of a directory, in the order filepath.Glob lists them
RuleDirs ==
    { << RuleFile(BruteForce), RuleFile(CatchAll) >>,
      << RuleFile(Probe), BadRuleFile, RuleFile(Disabled), RuleFile(CatchAll),
         RuleFile(BruteForce) >> }

\* the text json.Marshal writes for a map[string]interface{}
json_Marshal(m) == [kind |-> "object", members |-> m]

\* a text that is not JSON
Garbled == [kind |-> "invalid", members |-> EmptyMap]

\* the value a JSON value decodes to in an interface{}: every number is a
\* float64, every object a map[string]interface{}
RECURSIVE jsonDecode(_)
jsonDecode(val) ==
    CASE val.t \in {"int", "float"} -> Float(val.v)
      [] val.t = "map" -> Map([k \in DOMAIN val.v |-> jsonDecode(val.v[k])])
      [] val.t = "smap" -> Map([k \in DOMAIN val.v |-> Str(val.v[k])])
      [] OTHER -> val

\* json.Unmarshal([]byte(text), &normalized), normalized a
\* map[string]interface{}: null leaves the nil map, anything but an object
\* or null is an error
json_Unmarshal(text) ==
    CASE text.kind = "object" ->
            [err |-> Nil, normalized |-> jsonDecode(Map(text.members))]
      [] text.kind = "null" -> [err |-> Nil, normalized |-> Map(EmptyMap)]
      [] OTHER ->
            [err |-> Err(Words(<<"invalid", "character">>)),
             normalized |-> Map(EmptyMap)]

\* the body of a POST /api/v1/events request; binds is what ShouldBindJSON
\* answers (event_type, source and normalized are required)
EventRequest(eventType, source, severity, normalized) ==
    [event_type |-> eventType, source |-> source, severity |-> severity,
     normalized |-> normalized]

EventRequests ==
    { EventRequest(<<"authentication_failed">>, <<"fw", "-1">>, <<"high">>,
                   Map((<<"attempts">> :> IntV(5))
                       @@ (<<"user">> :> Map(<<"name">> :> Str(<<"root">>))))),
      EventRequest(<<"authentication_failed">>, <<"ids">>, <<>>, Map(EmptyMap)),
      EventRequest(<<"port_scan">>, <<>>, <<"low">>, Nil) }

NoEvent ==
    [event_id |-> <<>>, timestamp |-> 0, source |-> <<>>, event_type |-> <<>>,
     severity |-> <<>>, raw_data |-> <<>>, normalized |-> Garbled,
     processed_at |-> <<>>]

\* the events a caller other than CreateEvent hands to EvaluateEvent
CallerEvents ==
    { [NoEvent EXCEPT !.event_id = <<"evt-", "x">>,
                      !.source = <<"import">>,
                      !.event_type = <<"authentication_failed">>,
                      !.severity = <<"info">>] }

Evals == 1..MaxEvents

NoEval ==
    [pc |-> "idle", event |-> NoEvent, normalized |-> Map(EmptyMap),
     rule |-> 0, cond |-> 0, action |-> 0,
     returned |-> FALSE, err |-> Nil,
     began |-> 0,          \* observation: the events stored when the evaluation began
     results |-> <<>>,     \* observation: the conditions evaluated, with the result
     evaluated |-> <<>>,   \* observation: the rules evaluated, with the result
     fired |-> <<>>,       \* observation: the rule actions run
     saves |-> 0]          \* observation: the times the event was saved

---------------------------------------------------------------------------
(* State *)

VARIABLES
    booted,      \* main has loaded the playbooks
    playbooks,   \* Orchestrator.playbooks
    actionLogs,  \* table action_logs
    incidents,   \* table incidents
    pc,          \* position of each call of ExecutePlaybook
    playbook,    \* its local playbook
    context,     \* its execution context
    stepIdx,     \* index of the step the range loop is at
    call,        \* frame of the ActionRegistry.Execute call in flight
    ret,         \* what ExecutePlaybook returned
    args,        \* observation: the arguments it was called with
    trace,       \* observation: the calls of ActionRegistry.Execute it made
    rulesLoaded, \* main has loaded the rules
    rules,       \* DetectionEngine.rules
    events,      \* table events
    clock,       \* time.Now(), in seconds
    evals,       \* the calls of EvaluateEvent: position and locals of each
    updates,     \* the updates of an incident in flight: position and locals
    load         \* a call of LoadRules after the boot: position and locals

vars == <<booted, playbooks, actionLogs, incidents, pc, playbook, context,
          stepIdx, call, ret, args, trace, rulesLoaded, rules, events, clock,
          evals, updates, load>>

\* the state of the orchestrator that the detection engine never touches
orchestratorVars == <<booted, playbooks, actionLogs, pc, playbook, context,
                      stepIdx, call, ret, args, trace>>

\* the state of the detection engine
detectionVars == <<rulesLoaded, rules, events, clock, evals>>

inFlightVars == <<updates, load>>

\* the requests to update an incident that can be in flight together
Updaters == {1, 2}

\* var incident models.Incident
ZeroIncident ==
    [incident_id |-> <<>>, status |-> "", severity |-> "", category |-> <<>>,
     title |-> <<>>, description |-> <<>>, triggered_by_rule |-> <<>>,
     related_events |-> <<>>, notes |-> <<>>]

NoUpdate == [pc |-> "idle", kind |-> "", id |-> <<>>, body |-> EmptyMap,
             at |-> 0, incident |-> ZeroIncident, outcome |-> ""]

NoLoad == [pc |-> "idle", files |-> <<>>,
           dir |-> <<>>,   \* observation: the directory it was called with
           old |-> <<>>]   \* observation: the rules when it was called

\* the calls of ExecutePlaybook of one behaviour
Runs == {1}

NoPlaybook == [id |-> <<>>, inputs |-> <<>>, steps |-> <<>>]
NoCall == [actionType |-> <<>>, params |-> EmptyMap, row |-> 0,
           result |-> Nil, err |-> Nil]
NoReturn == [returned |-> FALSE, err |-> Nil, cause |-> Nil]
Return(e, cause) == [returned |-> TRUE, err |-> e, cause |-> cause]

NoArgs == [playbookID |-> <<>>, inputs |-> EmptyMap]

\* The database is a file that outlives the process: the tables start empty
\* or with the rows an earlier process left.
StoredTables ==
    { [actionLogs |-> <<>>, incidents |-> <<>>, events |-> <<>>],
      [events |-> << [NoEvent EXCEPT !.event_id = NewID("evt-", 1),
                                     !.source = <<"fw", "-1">>,
                                     !.event_type = <<"authentication_failed">>,
                                     !.severity = <<"high">>,
                                     !.normalized = json_Marshal(EmptyMap),
                                     !.processed_at = <<0>>] >>,
       actionLogs |-> << [action_id |-> NewID("act-", 1),
                          action_type |-> <<"create_incident">>,
                          status |-> "completed", error |-> Nil] >>,
       incidents |-> << [incident_id |-> NewID("inc-", 1), status |-> "open",
                         severity |-> "medium", category |-> <<>>,
                         title |-> Words(<<"Automated", "Incident">>),
                         description |-> <<>>,
                         triggered_by_rule |-> <<>>, related_events |-> <<>>,
                         notes |-> <<>>] >>] }

\* the state after construction, with the tables as stored and the given
\* calls of EvaluateEvent still to come
\* the state after main has built the engine, the registry and the
\* orchestrator, with the given calls of ExecutePlaybook and EvaluateEvent
\* still to come
InitOver(db, slots, runs) ==
    /\ booted = FALSE
    /\ playbooks = EmptyMap
    /\ actionLogs = db.actionLogs
    /\ incidents = db.incidents
    /\ events = db.events
    /\ args = [r \in runs |-> NoArgs]
    /\ pc = [r \in runs |-> "idle"]
    /\ playbook = [r \in runs |-> NoPlaybook]
    /\ context = [r \in runs |-> Map(EmptyMap)]
    /\ stepIdx = [r \in runs |-> 0]
    /\ call = [r \in runs |-> NoCall]
    /\ ret = [r \in runs |-> NoReturn]
    /\ trace = [r \in runs |-> <<>>]
    /\ rulesLoaded = FALSE
    /\ rules = <<>>
    /\ clock = 0
    /\ evals = [e \in slots |-> NoEval]
    /\ updates = [u \in Updaters |-> NoUpdate]
    /\ load = NoLoad

InitWith(db, slots) == InitOver(db, slots, Runs)

Init == \E db \in StoredTables : InitWith(db, Evals)

---------------------------------------------------------------------------
(* Orchestrator: orchestrator.go *)

\* the loop of LoadPlaybooks over the files
RECURSIVE loadFiles(_, _)
loadFiles(files, loaded) ==
    IF files = <<>> THEN loaded
    ELSE loadFiles(Tail(files),
                   IF Head(files).parses
                   THEN MapPut(loaded, Head(files).playbook.id, Head(files).playbook)
                   ELSE loaded)

LoadPlaybooks ==
    /\ ~booted
    /\ booted' = TRUE
    /\ \E dir \in PlaybookDirs : playbooks' = loadFiles(dir, playbooks)
    /\ UNCHANGED <<detectionVars, inFlightVars>>
    /\ UNCHANGED <<actionLogs, incidents, pc, playbook, context, stepIdx, call,
                   ret, args, trace>>

\* mutant: the validation loop is skipped
missingInputsUnchecked(pb, inputs) == <<>>

\* mutant: the loop does not look at input.Required
firstMissingAnyInput(pb, inputs) ==
    LET missing == SelectSeq(pb.inputs, LAMBDA input : input.name \notin DOMAIN inputs)
    IN IF missing = <<>> THEN <<>> ELSE <<missing[1].name>>

\* the required inputs of pb that are absent from inputs, in declared order
missingInputs(pb, inputs) ==
    SelectSeq(pb.inputs, LAMBDA input : input.required /\ input.name \notin DOMAIN inputs)

\* the name the validation loop returns on: that of the first required
\* input that is absent (as a one-element sequence; empty when none is)
firstMissing(pb, inputs) ==
    IF missingInputs(pb, inputs) = <<>> THEN <<>>
    ELSE <<missingInputs(pb, inputs)[1].name>>

\* ExecutePlaybook up to the first iteration of the step loop
EnterExecutePlaybook(r, playbookID, inputs) ==
    /\ booted
    /\ pc[r] = "idle"
    /\ args' = [args EXCEPT ![r] = [playbookID |-> playbookID, inputs |-> inputs]]
    /\ IF playbookID \notin DOMAIN playbooks
       THEN /\ ret' = [ret EXCEPT ![r] =
                        Return(Err(Words(<<"playbook", "not", "found:">>)
                                   \o <<" ">> \o playbookID), Nil)]
            /\ pc' = [pc EXCEPT ![r] = "done"]
            /\ UNCHANGED <<playbook, context, stepIdx>>
       ELSE LET pb == playbooks[playbookID]
                missing == missingInputs(pb, inputs)
            IN IF missing # <<>>
               THEN /\ ret' = [ret EXCEPT ![r] =
                                Return(Err(Words(<<"missing", "required", "input:">>)
                                           \o <<" ">> \o firstMissing(pb, inputs)[1]),
                                       Nil)]
                    /\ pc' = [pc EXCEPT ![r] = "done"]
                    /\ playbook' = [playbook EXCEPT ![r] = pb]
                    /\ UNCHANGED <<context, stepIdx>>
               ELSE /\ playbook' = [playbook EXCEPT ![r] = pb]
                    /\ context' = [context EXCEPT ![r] =
                                     Map(<<"inputs">> :> Map(inputs))]
                    /\ stepIdx' = [stepIdx EXCEPT ![r] = 1]
                    /\ pc' = [pc EXCEPT ![r] = "loop"]
                    /\ UNCHANGED ret
    /\ UNCHANGED <<booted, playbooks, actionLogs, incidents, call, trace>>
    /\ UNCHANGED <<detectionVars, inFlightVars>>

\* a call of ExecutePlaybook made once the calls before it have returned
ExecutePlaybook(r, playbookID, inputs) ==
    /\ \A q \in Runs : q < r => pc[q] \in {"done", "hung"}
    /\ EnterExecutePlaybook(r, playbookID, inputs)

\* one iteration of the step loop up to the handler:
\* interpolateParameters, and ActionRegistry.Execute up to db.Create, whose
\* error Execute does not look at: created says whether the row was stored
DispatchWith(r, created) ==
    /\ pc[r] = "loop"
    /\ stepIdx[r] <= Len(playbook[r].steps)
    /\ LET step == playbook[r].steps[stepIdx[r]]
       IN IF interpolationHangs(step.parameters, context[r])
          THEN /\ pc' = [pc EXCEPT ![r] = "hung"]
               /\ UNCHANGED <<actionLogs, call, trace>>
          ELSE LET interpolatedParams ==
                       interpolateParameters(step.parameters, context[r])
                   entry == [step |-> stepIdx[r], actionType |-> step.action,
                             params |-> interpolatedParams, row |-> 0,
                             invoked |-> FALSE, returned |-> FALSE, err |-> Nil]
                   unknown == Err(Words(<<"unknown", "action", "type:">>)
                                  \o <<" ">> \o step.action)
               IN IF step.action \notin RegisteredActions
                     THEN /\ trace' = [trace EXCEPT ![r] =
                                 Append(@, [entry EXCEPT !.returned = TRUE,
                                                         !.err = unknown])]
                          /\ call' = [call EXCEPT ![r] =
                                 [actionType |-> step.action,
                                  params |-> interpolatedParams, row |-> 0,
                                  result |-> Nil, err |-> unknown]]
                          /\ pc' = [pc EXCEPT ![r] = "returned"]
                          /\ UNCHANGED actionLogs
                     ELSE LET row == IF created THEN Len(actionLogs) + 1 ELSE 0
                          IN /\ trace' = [trace EXCEPT ![r] =
                                    Append(@, [entry EXCEPT !.row = row])]
                             /\ actionLogs' =
                                    IF created
                                    THEN Append(actionLogs,
                                           [action_id |->
                                               NewID("act-", Len(actionLogs) + 1),
                                            action_type |-> step.action,
                                            status |-> "running",
                                            error |-> Nil])
                                    ELSE actionLogs
                             /\ call' = [call EXCEPT ![r] =
                                    [actionType |-> step.action,
                                     params |-> interpolatedParams,
                                     row |-> row,
                                     result |-> Nil, err |-> Nil]]
                             /\ pc' = [pc EXCEPT ![r] = "handler"]
    /\ UNCHANGED <<booted, playbooks, incidents, playbook, context, stepIdx, ret,
                   args>>
    /\ UNCHANGED <<detectionVars, inFlightVars>>

\* the iteration when db.Create stores the row
Dispatch(r) == DispatchWith(r, TRUE)

\* ActionRegistry.Execute: action.Execute(params)
InvokeHandler(r) ==
    /\ pc[r] = "handler"
    /\ \E o \in HandlerExecute(call[r].actionType, call[r].params, incidents) :
        /\ incidents' = o.incidents
        /\ call' = [call EXCEPT ![r].result = o.result, ![r].err = o.err]
    /\ trace' = [trace EXCEPT ![r][Len(trace[r])].invoked = TRUE]
    /\ pc' = [pc EXCEPT ![r] = "finish"]
    /\ UNCHANGED <<booted, playbooks, actionLogs, playbook, context, stepIdx, ret,
                   args>>
    /\ UNCHANGED <<detectionVars, inFlightVars>>

\* mutant: the row is finalized as completed whatever the handler returned
finalStatusCompleted(err) == "completed"

\* the status Execute gives the log row once the handler has returned
finalStatus(err) == IF err # Nil THEN "failed" ELSE "completed"

\* ActionRegistry.Execute after the handler: the update of the log row
FinishExecute(r) ==
    /\ pc[r] = "finish"
    /\ call[r].row # 0
    /\ actionLogs' = [actionLogs EXCEPT ![call[r].row] =
            [@ EXCEPT !.status = finalStatus(call[r].err),
                      !.error = IF call[r].err # Nil THEN Str(call[r].err.v) ELSE Nil]]
    /\ trace' = [trace EXCEPT ![r][Len(trace[r])].returned = TRUE,
                              ![r][Len(trace[r])].err = call[r].err]
    /\ pc' = [pc EXCEPT ![r] = "returned"]
    /\ UNCHANGED <<booted, playbooks, incidents, playbook, context, stepIdx, call,
                   ret, args>>
    /\ UNCHANGED <<detectionVars, inFlightVars>>

\* ActionRegistry.Execute after the handler when db.Create had not stored
\* the row: db.Save finds no row to update and inserts the final one, or
\* fails as db.Create did
FinishUnlogged(r) ==
    /\ pc[r] = "finish"
    /\ call[r].row = 0
    /\ \/ actionLogs' = Append(actionLogs,
              [action_id |-> NewID("act-", Len(actionLogs) + 1),
               action_type |-> call[r].actionType,
               status |-> finalStatus(call[r].err),
               error |-> IF call[r].err # Nil THEN Str(call[r].err.v) ELSE Nil])
       \/ UNCHANGED actionLogs
    /\ trace' = [trace EXCEPT ![r][Len(trace[r])].returned = TRUE,
                              ![r][Len(trace[r])].err = call[r].err]
    /\ pc' = [pc EXCEPT ![r] = "returned"]
    /\ UNCHANGED <<booted, playbooks, incidents, playbook, context, stepIdx, call,
                   ret, args>>
    /\ UNCHANGED <<detectionVars, inFlightVars>>

\* mutant: an unset on_failure does not abort
abortsOnExplicit(step, err) == err # Nil /\ step.on_failure = <<"abort">>

\* the failure policy of the step loop: the run returns the step's error
abortsOn(step, err) ==
    err # Nil /\ (step.on_failure = <<"abort">> \/ step.on_failure = <<>>)

\* mutant: the result is stored in the map of the caller's inputs
storeStepIntoInputs(ctx, step, result, err) ==
    Map(MapPut(ctx.v, <<"inputs">>,
               Map(MapPut(ctx.v[<<"inputs">>].v, step.id,
                          Map((<<"output">> :> result) @@ (<<"error">> :> err))))))

\* mutant: the results are stored in one map that all runs share
storeStepShared(ctx, step, result, err) ==
    LET stepsOf(c) == IF <<"steps">> \in DOMAIN c.v THEN c.v[<<"steps">>].v
                      ELSE EmptyMap
        keys == UNION { DOMAIN stepsOf(context[q]) : q \in DOMAIN context }
        shared == [k \in keys |->
                     IF k \in DOMAIN stepsOf(ctx) THEN stepsOf(ctx)[k]
                     ELSE stepsOf(context[CHOOSE q \in DOMAIN context :
                                             k \in DOMAIN stepsOf(context[q])])[k]]
    IN Map(MapPut(ctx.v, <<"steps">>,
                  Map(MapPut(shared, step.id,
                             Map((<<"output">> :> result) @@ (<<"error">> :> err))))))

\* context["steps"][step.ID] = {"output": result, "error": err}
storeStep(ctx, step, result, err) ==
    LET steps == IF MapGet(ctx.v, <<"steps">>) = Nil THEN EmptyMap
                 ELSE ctx.v[<<"steps">>].v
    IN Map(MapPut(ctx.v, <<"steps">>,
                  Map(MapPut(steps, step.id,
                             Map((<<"output">> :> result) @@ (<<"error">> :> err))))))

\* mutant: a step is skipped
nextStepSkips(i) == i + 2

\* the range loop moves on to the next declared step
nextStep(i) == i + 1

\* the rest of the iteration, after ActionRegistry.Execute has returned
StepReturn(r) ==
    /\ pc[r] = "returned"
    /\ LET step == playbook[r].steps[stepIdx[r]]
       IN IF abortsOn(step, call[r].err)
          THEN /\ ret' = [ret EXCEPT ![r] =
                            Return(Err(<<"step", " ">> \o step.id \o <<" ">>
                                       \o <<"failed:", " ">> \o call[r].err.v),
                                   call[r].err)]
               /\ pc' = [pc EXCEPT ![r] = "done"]
               /\ UNCHANGED <<context, stepIdx>>
          ELSE /\ context' = [context EXCEPT ![r] =
                            storeStep(@, step, call[r].result, call[r].err)]
               /\ stepIdx' = [stepIdx EXCEPT ![r] = nextStep(@)]
               /\ pc' = [pc EXCEPT ![r] = "loop"]
               /\ UNCHANGED ret
    /\ UNCHANGED <<booted, playbooks, actionLogs, incidents, playbook, call, args,
                   trace>>
    /\ UNCHANGED <<detectionVars, inFlightVars>>

\* the step loop is over: ExecutePlaybook returns nil
Complete(r) ==
    /\ pc[r] = "loop"
    /\ stepIdx[r] > Len(playbook[r].steps)
    /\ ret' = [ret EXCEPT ![r] = Return(Nil, Nil)]
    /\ pc' = [pc EXCEPT ![r] = "done"]
    /\ UNCHANGED <<booted, playbooks, actionLogs, incidents, playbook, context,
                   stepIdx, call, args, trace>>
    /\ UNCHANGED <<detectionVars, inFlightVars>>

Next ==
    \/ LoadPlaybooks
    \/ \E r \in Runs, playbookID \in PlaybookIDs, inputs \in InputMaps :
           ExecutePlaybook(r, playbookID, inputs)
    \/ \E r \in Runs : Dispatch(r)
    \/ \E r \in Runs : InvokeHandler(r)
    \/ \E r \in Runs : FinishExecute(r)
    \/ \E r \in Runs : StepReturn(r)
    \/ \E r \in Runs : Complete(r)

Spec == Init /\ [][Next]_vars

---------------------------------------------------------------------------
(* Detection engine: detection.go, events.go *)

\* the loop of LoadRules over the files
RECURSIVE loadRuleFiles(_, _)
loadRuleFiles(files, loaded) ==
    IF files = <<>> THEN loaded
    ELSE loadRuleFiles(Tail(files),
                       IF Head(files).parses /\ Head(files).rule.enabled
                       THEN Append(loaded, Head(files).rule)
                       ELSE loaded)

LoadRules(dir) ==
    /\ ~rulesLoaded
    /\ rulesLoaded' = TRUE
    /\ rules' = loadRuleFiles(dir, <<>>)
    /\ UNCHANGED <<events, clock, evals, incidents>>
    /\ UNCHANGED <<orchestratorVars, inFlightVars>>

\* a second passes
Tick ==
    /\ rulesLoaded
    /\ clock < MaxClock
    /\ clock' = clock + 1
    /\ UNCHANGED <<rulesLoaded, rules, events, evals, incidents>>
    /\ UNCHANGED <<orchestratorVars, inFlightVars>>

\* the loop of getNestedField over the remaining parts
RECURSIVE getNestedParts(_, _)
getNestedParts(parts, current) ==
    IF parts = <<>> THEN current
    ELSE IF current.t = "map"
         THEN getNestedParts(Tail(parts), MapGet(current.v, Head(parts)))
         ELSE Nil

getNestedField(data, field) == getNestedParts(Split(field), data)

\* regexp.MatchString for the patterns of the rule files: a text without
\* metacharacters matches wherever it occurs, "(" does not compile
regexp_MatchString(pattern, s) ==
    IF pattern = <<"(">>
    THEN [matched |-> FALSE, err |-> Err(Words(<<"missing", "closing", ")">>))]
    ELSE [matched |-> \E i \in 0..(Len(s) - Len(pattern)) :
                          SubSeq(s, i + 1, i + Len(pattern)) = pattern,
          err |-> Nil]

\* the columns of the events table that hold text an event type can equal
TextColumns == {"event_id", "source", "event_type", "severity"}

\* the other columns of the table
OtherColumns == {"timestamp", "raw_data", "normalized", "created_at", "processed_at"}

\* the value of a column of a row, for COUNT(DISTINCT column)
ColumnValues(rows, column) ==
    CASE column \in TextColumns \cup {"timestamp", "raw_data", "normalized"} ->
            { row[column] : row \in rows }
      [] column = "created_at" -> { row.timestamp : row \in rows }
      [] column = "processed_at" ->
            { row.processed_at : row \in { q \in rows : q.processed_at # <<>> } }

\* mutant: every stored event counts, however old
evaluateCountUnwindowed(event, cond, table, now) ==
    LET column == IF Len(cond.field) = 1 THEN cond.field[1] ELSE ""
    IN IF column \in TextColumns
       THEN Cardinality({ i \in DOMAIN table : table[i][column] = event.event_type })
       ELSE 0

\* what query.Count(&count) leaves in count: a query the database rejects
\* leaves count at zero
evaluateCount(event, cond, table, now) ==
    LET windowStart == now - cond.timewindow
        column == IF Len(cond.field) = 1 THEN cond.field[1] ELSE ""
        rows == IF column \in TextColumns
                THEN { i \in DOMAIN table :
                          /\ table[i].timestamp >= windowStart
                          /\ table[i][column] = event.event_type }
                ELSE {}
        distinctColumn ==
            IF Len(cond.count_field) = 1 THEN cond.count_field[1] ELSE ""
    IN IF column \notin TextColumns \cup OtherColumns THEN 0
       ELSE IF cond.operator = <<"count_distinct">> /\ cond.count_field # <<>>
            THEN IF distinctColumn \in TextColumns \cup OtherColumns
                 THEN Cardinality(ColumnValues({ table[i] : i \in rows },
                                               distinctColumn))
                 ELSE 0
            ELSE Cardinality(rows)

\* mutant: the threshold itself is not enough
evaluateCountConditionStrict(event, cond, table, now) ==
    evaluateCount(event, cond, table, now) > cond.threshold

evaluateCountCondition(event, cond, table, now) ==
    evaluateCount(event, cond, table, now) >= cond.threshold

\* mutant: the normalized payload is looked at before the event's attributes
fieldValueNormalizedFirst(event, normalized, cond) ==
    IF normalized.t = "map" /\ cond.field \in DOMAIN normalized.v
    THEN normalized.v[cond.field]
    ELSE CASE cond.field = <<"event_type">> -> Str(event.event_type)
           [] cond.field = <<"source">> -> Str(event.source)
           [] cond.field = <<"severity">> -> Str(event.severity)
           [] OTHER -> getNestedField(normalized, cond.field)

\* the first switch of evaluateCondition: the value of the field
fieldValue(event, normalized, cond) ==
    CASE cond.field = <<"event_type">> -> Str(event.event_type)
      [] cond.field = <<"source">> -> Str(event.source)
      [] cond.field = <<"severity">> -> Str(event.severity)
      [] OTHER -> getNestedField(normalized, cond.field)

\* mutant: integers are compared as well
greaterThanAnyNumber(value, threshold) ==
    /\ value.t \in {"float", "int"}
    /\ threshold.t \in {"float", "int"}
    /\ value.v > threshold.v

\* case "greater_than": both operands have to be float64
greaterThan(value, threshold) ==
    /\ value.t = "float"
    /\ threshold.t = "float"
    /\ value.v > threshold.v

evaluateCondition(event, normalized, cond, table, now) ==
    LET value == fieldValue(event, normalized, cond)
    IN CASE cond.operator = <<"equals">> ->
                Sprintf_v(value) = Sprintf_v(cond.value)
         [] cond.operator = <<"in">> ->
                \E i \in DOMAIN cond.values : Sprintf_v(value) = cond.values[i]
         [] cond.operator = <<"greater_than">> -> greaterThan(value, cond.value)
         [] cond.operator = <<"regex">> ->
                LET m == regexp_MatchString(cond.pattern, Sprintf_v(value))
                IN m.err = Nil /\ m.matched
         [] cond.operator \in {<<"count">>, <<"count_distinct">>} ->
                evaluateCountCondition(event, cond, table, now)
         [] OTHER -> FALSE

\* strings.ToLower on the severities of the rule files
ToLower(s) ==
    LET lower == ("High" :> "high") @@ ("Critical" :> "critical")
                 @@ ("Medium" :> "medium") @@ ("Low" :> "low")
    IN [i \in DOMAIN s |-> IF s[i] \in DOMAIN lower THEN lower[s[i]] ELSE s[i]]

\* createIncident up to the write: the incident it builds
ruleIncident(event, rule, incs) ==
    LET lowered == ToLower(rule.severity)
    IN [incident_id |-> NewID("inc-", Len(incs) + 1),
        status |-> "open",
        severity |-> CASE lowered = <<"critical">> -> "critical"
                       [] lowered = <<"high">> -> "high"
                       [] lowered = <<"low">> -> "low"
                       [] OTHER -> "medium",
        category |-> rule.category,
        title |-> rule.name,
        description |-> rule.description
                        \o Words(<<"\nTriggered", "by", "event:">>)
                        \o <<" ">> \o event.event_id,
        triggered_by_rule |-> rule.id,
        related_events |-> <<"[\"">> \o event.event_id \o <<"\"]">>,
        notes |-> <<>>]

\* mutant: a rule that has an incident creates no second one
createIncidentOnce(event, rule, incs) ==
    IF \E i \in DOMAIN incs : incs[i].triggered_by_rule = rule.id
    THEN { [err |-> Nil, incidents |-> incs] }
    ELSE { [err |-> Nil, incidents |-> Append(incs, ruleIncident(event, rule, incs))],
           [err |-> Err(Words(<<"failed", "to", "create", "incident:", "database",
                                "error">>)),
            incidents |-> incs] }

\* createIncident: the write succeeds or fails
createIncident(event, rule, incs) ==
    { [err |-> Nil, incidents |-> Append(incs, ruleIncident(event, rule, incs))],
      [err |-> Err(Words(<<"failed", "to", "create", "incident:", "database",
                           "error">>)),
       incidents |-> incs] }

\* mutant: the case falls into the one of create_incident
triggerPlaybookCreates(event, rule, incs) ==
    Append(incs, ruleIncident(event, rule, incs))

\* case "execute_playbook": a line is logged, the incidents table is as it was
triggerPlaybook(event, rule, incs) == incs

\* sendNotification: the line it logs
sendNotification(event, rule, action) ==
    LET message == IF action.message = <<>>
                   THEN <<"Rule", " ", "'">> \o rule.name
                        \o <<"'", " ">> \o Words(<<"triggered", "by", "event">>)
                        \o <<" ">> \o event.event_id
                   ELSE action.message
        channel == IF action.channel = <<>> /\ Len(action.channels) > 0
                   THEN action.channels[1]
                   ELSE action.channel
    IN [channel |-> channel, message |-> message]

\* db.Save(event): the row with the event's key is written with every field
Save(table, event) ==
    IF \E i \in DOMAIN table : table[i].event_id = event.event_id
    THEN [i \in DOMAIN table |->
             IF table[i].event_id = event.event_id THEN event ELSE table[i]]
    ELSE Append(table, event)

\* what ShouldBindJSON answers: event_type, source and normalized are required
bindError(req) ==
    req.event_type = <<>> \/ req.source = <<>> \/ req.normalized.t # "map"

\* CreateEvent: the request is answered, and an event that was stored is
\* handed to a goroutine that calls EvaluateEvent
CreateEvent(e, req) ==
    /\ rulesLoaded
    /\ evals[e].pc = "idle"
    /\ \A q \in DOMAIN evals : q < e => evals[q].pc # "idle"
    /\ \/ /\ bindError(req)
          /\ evals' = [evals EXCEPT ![e].pc = "rejected"]
          /\ UNCHANGED events
       \/ /\ ~bindError(req)
          /\ \E stored \in BOOLEAN :
               LET event == [event_id |-> NewID("evt-", Len(events) + 1),
                             timestamp |-> clock,
                             source |-> req.source,
                             event_type |-> req.event_type,
                             severity |-> IF req.severity = <<>>
                                          THEN <<"info">> ELSE req.severity,
                             raw_data |-> <<>>,
                             normalized |-> json_Marshal(req.normalized.v),
                             processed_at |-> <<>>]
               IN IF stored
                  THEN /\ events' = Append(events, event)
                       /\ evals' = [evals EXCEPT ![e].pc = "called",
                                                 ![e].event = event]
                  ELSE /\ evals' = [evals EXCEPT ![e].pc = "rejected"]
                       /\ UNCHANGED events
    /\ UNCHANGED <<rulesLoaded, rules, clock, incidents>>
    /\ UNCHANGED <<orchestratorVars, inFlightVars>>

\* the position of an evaluation that goes on to rule i of the range loop,
\* and the position of one whose rule matched
RECURSIVE enterRule(_, _, _)
RECURSIVE enterActions(_, _)
\* mutant: a rule without conditions matches nothing
enterRuleSkipsEmpty(ev, loaded, i) ==
    IF i > Len(loaded) THEN [ev EXCEPT !.pc = "mark"]
    ELSE IF loaded[i].conditions = <<>>
         THEN enterRule([ev EXCEPT !.rule = i,
                            !.evaluated = Append(@, [rule |-> i, matched |-> FALSE])],
                        loaded, i + 1)
         ELSE [ev EXCEPT !.pc = "match", !.rule = i, !.cond = 1]

enterRule(ev, loaded, i) ==
    IF i > Len(loaded) THEN [ev EXCEPT !.pc = "mark"]
    ELSE IF loaded[i].conditions = <<>>
         THEN enterActions([ev EXCEPT !.rule = i,
                               !.evaluated = Append(@, [rule |-> i, matched |-> TRUE])],
                           loaded)
         ELSE [ev EXCEPT !.pc = "match", !.rule = i, !.cond = 1]

enterActions(ev, loaded) ==
    IF loaded[ev.rule].actions = <<>> THEN enterRule(ev, loaded, ev.rule + 1)
    ELSE [ev EXCEPT !.pc = "actions", !.action = 1]

\* a caller other than CreateEvent calls EvaluateEvent with an event of its
\* own
CallEvaluateEvent(e, event) ==
    /\ rulesLoaded
    /\ evals[e].pc = "idle"
    /\ \A q \in DOMAIN evals : q < e => evals[q].pc # "idle"
    /\ evals' = [evals EXCEPT ![e].pc = "called", ![e].event = event]
    /\ UNCHANGED <<rulesLoaded, rules, events, clock, incidents>>
    /\ UNCHANGED <<orchestratorVars, inFlightVars>>

\* EvaluateEvent up to the range loop
EvaluateEvent(e) ==
    /\ evals[e].pc = "called"
    /\ LET parsed == json_Unmarshal(evals[e].event.normalized)
       IN evals' = [evals EXCEPT ![e] =
              IF parsed.err # Nil
              THEN [@ EXCEPT !.pc = "done", !.returned = TRUE,
                       !.began = Len(events),
                       !.err = Err(Words(<<"failed", "to", "parse", "normalized",
                                           "data:">>) \o <<" ">> \o parsed.err.v)]
              ELSE enterRule([@ EXCEPT !.normalized = parsed.normalized,
                                 !.began = Len(events)],
                             rules, 1)]
    /\ UNCHANGED <<rulesLoaded, rules, events, clock, incidents>>
    /\ UNCHANGED <<orchestratorVars, inFlightVars>>

\* matchesRule: one condition of the rule
MatchesRule(e) ==
    /\ evals[e].pc = "match"
    /\ LET ev == evals[e]
           rule == rules[ev.rule]
           holds == evaluateCondition(ev.event, ev.normalized,
                                      rule.conditions[ev.cond], events, clock)
           seen == [ev EXCEPT !.results =
                       Append(@, [rule |-> ev.rule, cond |-> ev.cond,
                                  holds |-> holds])]
       IN evals' = [evals EXCEPT ![e] =
              IF ~holds
              THEN enterRule([seen EXCEPT !.evaluated =
                                 Append(@, [rule |-> ev.rule, matched |-> FALSE])],
                             rules, ev.rule + 1)
              ELSE IF ev.cond < Len(rule.conditions)
                   THEN [seen EXCEPT !.cond = ev.cond + 1]
                   ELSE enterActions([seen EXCEPT !.evaluated =
                                         Append(@, [rule |-> ev.rule, matched |-> TRUE])],
                                     rules)]
    /\ UNCHANGED <<rulesLoaded, rules, events, clock, incidents>>
    /\ UNCHANGED <<orchestratorVars, inFlightVars>>

\* mutant: an action that fails or is not known ends the rule's actions
nextActionStopsOnError(ev, loaded, failed) ==
    IF ~failed /\ ev.action < Len(loaded[ev.rule].actions)
    THEN [ev EXCEPT !.action = ev.action + 1]
    ELSE enterRule(ev, loaded, ev.rule + 1)

\* the loop of executeRuleActions goes on whatever the action did; after the
\* last action the loop of EvaluateEvent goes on
nextAction(ev, loaded, failed) ==
    IF ev.action < Len(loaded[ev.rule].actions)
    THEN [ev EXCEPT !.action = ev.action + 1]
    ELSE enterRule(ev, loaded, ev.rule + 1)

NoLine == [channel |-> <<>>, message |-> <<>>]

Fired(ev, type, outcome, line) ==
    [ev EXCEPT !.fired = Append(@, [rule |-> ev.rule, action |-> ev.action,
                                    type |-> type, outcome |-> outcome,
                                    notification |-> line])]

\* executeRuleActions: one action of the rule
ExecuteRuleAction(e) ==
    /\ evals[e].pc = "actions"
    /\ LET ev == evals[e]
           rule == rules[ev.rule]
           action == rule.actions[ev.action]
       IN CASE action.type = <<"create_incident">> ->
                 \E o \in createIncident(ev.event, rule, incidents) :
                    /\ incidents' = o.incidents
                    /\ evals' = [evals EXCEPT ![e] =
                          nextAction(Fired(ev, action.type,
                                           IF o.err = Nil THEN "created" ELSE "failed",
                                           NoLine),
                                     rules, o.err # Nil)]
            [] action.type = <<"execute_playbook">> ->
                 /\ incidents' = triggerPlaybook(ev.event, rule, incidents)
                 /\ evals' = [evals EXCEPT ![e] =
                       nextAction(Fired(ev, action.type, "logged", NoLine),
                                  rules, FALSE)]
            [] action.type = <<"notify">> ->
                 /\ evals' = [evals EXCEPT ![e] =
                       nextAction(Fired(ev, action.type, "notified",
                                        sendNotification(ev.event, rule, action)),
                                  rules, FALSE)]
                 /\ UNCHANGED incidents
            [] OTHER ->
                 /\ evals' = [evals EXCEPT ![e] =
                       nextAction(Fired(ev, action.type, "unknown", NoLine),
                                  rules, TRUE)]
                 /\ UNCHANGED incidents
    /\ UNCHANGED <<rulesLoaded, rules, events, clock>>
    /\ UNCHANGED <<orchestratorVars, inFlightVars>>

\* EvaluateEvent after the range loop
MarkProcessed(e) ==
    /\ evals[e].pc = "mark"
    /\ LET event == [evals[e].event EXCEPT !.processed_at = <<clock>>]
       IN /\ events' = Save(events, event)
          /\ evals' = [evals EXCEPT ![e].pc = "done", ![e].event = event,
                                    ![e].returned = TRUE, ![e].saves = @ + 1]
    /\ UNCHANGED <<rulesLoaded, rules, clock, incidents>>
    /\ UNCHANGED <<orchestratorVars, inFlightVars>>

NextDetection ==
    \/ \E dir \in RuleDirs : LoadRules(dir)
    \/ Tick
    \/ \E e \in Evals, req \in EventRequests : CreateEvent(e, req)
    \/ \E e \in Evals, event \in CallerEvents : CallEvaluateEvent(e, event)
    \/ \E e \in Evals : EvaluateEvent(e)
    \/ \E e \in Evals : MatchesRule(e)
    \/ \E e \in Evals : ExecuteRuleAction(e)
    \/ \E e \in Evals : MarkProcessed(e)

SpecDetection == Init /\ [][NextDetection]_vars

---------------------------------------------------------------------------
(* The brute-force scenario: README.md, incident_resp_plan.md *)

\* the threshold and the window, in seconds, of the brute-force rule
ScenarioThreshold == 5
ScenarioWindow == 300

ScenarioCount ==
    [Condition(<<"event_type">>, <<"count">>)
        EXCEPT !.threshold = ScenarioThreshold, !.timewindow = ScenarioWindow]

\* a rule whose only condition is the count and whose only action creates an
\* incident
CountOnly ==
    Rule(<<"count-001">>, Words(<<"Failed", "logins">>), <<"high">>, TRUE,
         << ScenarioCount >>,
         << [RuleAction(<<"create_incident">>) EXCEPT !.priority = <<"high">>] >>)

\* auth-001 of the README
BruteForceDetection ==
    Rule(<<"auth-001">>, Words(<<"Brute", "Force", "Detection">>), <<"high">>, TRUE,
         << [Condition(<<"event_type">>, <<"equals">>)
                EXCEPT !.value = Str(<<"authentication_failed">>)],
            ScenarioCount >>,
         << [RuleAction(<<"create_incident">>) EXCEPT !.priority = <<"high">>],
            [RuleAction(<<"execute_playbook">>)
                EXCEPT !.playbook = <<"brute-force-response">>],
            [RuleAction(<<"notify">>) EXCEPT !.channel = <<"security">>] >>)

ScenarioDirs == { << RuleFile(CountOnly) >>, << RuleFile(BruteForceDetection) >> }

\* the request of the README's demonstration
ScenarioRequests ==
    { EventRequest(<<"authentication_failed">>, <<"ssh-server">>, <<"medium">>,
                   Map((<<"source_ip">> :> Str(<<"192", ".", "168", ".", "1", ".", "100">>))
                       @@ (<<"username">> :> Str(<<"admin">>)))) }

ScenarioEvals == 1..ScenarioThreshold

\* the store starts empty
InitScenario ==
    InitWith([actionLogs |-> <<>>, incidents |-> <<>>, events |-> <<>>],
             ScenarioEvals)

\* CreateEvent when the requests come one at a time: the evaluation of an
\* event has returned before the next request arrives
SequentialCreateEvent(e, req) ==
    /\ \A q \in DOMAIN evals : evals[q].pc \in {"idle", "done", "rejected"}
    /\ CreateEvent(e, req)

NextScenario ==
    \/ \E dir \in ScenarioDirs : LoadRules(dir)
    \/ Tick
    \/ \E e \in ScenarioEvals, req \in ScenarioRequests : SequentialCreateEvent(e, req)
    \/ \E e \in ScenarioEvals : EvaluateEvent(e)
    \/ \E e \in ScenarioEvals : MatchesRule(e)
    \/ \E e \in ScenarioEvals : ExecuteRuleAction(e)
    \/ \E e \in ScenarioEvals : MarkProcessed(e)

SpecScenario == InitScenario /\ [][NextScenario]_vars

---------------------------------------------------------------------------
(* One condition at a time: detection.go, evaluateCondition *)

\* conditions of every operator, with their parameters present, absent and
\* of another type
ConditionPool ==
    { [Condition(<<"user", ".", "name">>, <<"equals">>) EXCEPT !.value = Str(<<"root">>)],
      [Condition(<<"attempts">>, <<"equals">>) EXCEPT !.value = IntV(5)],
      [Condition(<<"source">>, <<"equals">>) EXCEPT !.value = Str(<<"other">>)],
      [Condition(<<"source">>, <<"equals">>) EXCEPT !.value = Str(<<"ids">>)],
      [Condition(<<"severity">>, <<"equals">>) EXCEPT !.value = Str(<<"High">>)],
      Condition(<<"event_type">>, <<"equals">>),
      Condition(<<"missing">>, <<"equals">>),
      [Condition(<<"attempts">>, <<"greater_than">>) EXCEPT !.value = Float(3)],
      [Condition(<<"attempts">>, <<"greater_than">>) EXCEPT !.value = Float(5)],
      [Condition(<<"attempts">>, <<"greater_than">>) EXCEPT !.value = IntV(3)],
      [Condition(<<"attempts">>, <<"greater_than">>) EXCEPT !.value = Str(<<"3">>)],
      [Condition(<<"missing">>, <<"greater_than">>) EXCEPT !.value = Float(3)],
      Condition(<<"attempts">>, <<"greater_than">>),
      [Condition(<<"severity">>, <<"in">>)
          EXCEPT !.values = << <<"high">>, <<"critical">> >>],
      Condition(<<"severity">>, <<"in">>),
      [Condition(<<"source">>, <<"regex">>) EXCEPT !.pattern = <<"fw">>],
      [Condition(<<"source">>, <<"regex">>) EXCEPT !.pattern = <<"(">>],
      Condition(<<"source">>, <<"regex">>),
      [Condition(<<"event_type">>, <<"count">>)
          EXCEPT !.threshold = 2, !.timewindow = 1],
      [Condition(<<"event_type">>, <<"count">>)
          EXCEPT !.threshold = 1, !.timewindow = 1],
      [Condition(<<"event_type">>, <<"count">>) EXCEPT !.threshold = 2],
      [Condition(<<"event_type">>, <<"count">>) EXCEPT !.timewindow = 1],
      [Condition(<<"source_ip">>, <<"count">>)
          EXCEPT !.threshold = 1, !.timewindow = 1],
      [Condition(<<"event_type">>, <<"count_distinct">>)
          EXCEPT !.threshold = 2, !.timewindow = 1, !.count_field = <<"source">>],
      [Condition(<<"event_type">>, <<"count_distinct">>)
          EXCEPT !.threshold = 2, !.timewindow = 1],
      Condition(<<"source">>, <<"contains">>) }

\* a directory with one rule of one condition
ConditionDirs ==
    { << RuleFile(Rule(<<"one">>, <<"One">>, <<"low">>, TRUE, << c >>,
                       << RuleAction(<<"notify">>) >>)) >> : c \in ConditionPool }

\* the payload of the first has a key named like an attribute of the event;
\* the second differs in type and in case
ConditionRequests ==
    { EventRequest(<<"authentication_failed">>, <<"fw", "-1">>, <<"high">>,
                   Map((<<"attempts">> :> IntV(5))
                       @@ (<<"source">> :> Str(<<"other">>))
                       @@ (<<"user">> :> Map(<<"name">> :> Str(<<"root">>))))),
      EventRequest(<<"port_scan">>, <<"ids">>, <<>>,
                   Map((<<"attempts">> :> Str(<<"5">>))
                       @@ (<<"user">> :> Map(<<"name">> :> Str(<<"Root">>))))) }

NextConditions ==
    \/ \E dir \in ConditionDirs : LoadRules(dir)
    \/ Tick
    \/ \E e \in Evals, req \in ConditionRequests : CreateEvent(e, req)
    \/ \E e \in Evals : EvaluateEvent(e)
    \/ \E e \in Evals : MatchesRule(e)
    \/ \E e \in Evals : ExecuteRuleAction(e)
    \/ \E e \in Evals : MarkProcessed(e)

SpecConditions == Init /\ [][NextConditions]_vars

---------------------------------------------------------------------------
(* Requests in parallel: events.go, go h.detection.EvaluateEvent(event) *)

\* a rule of one count condition that two events within a second satisfy
Burst ==
    Rule(<<"burst">>, <<"Burst">>, <<"high">>, TRUE,
         << [Condition(<<"event_type">>, <<"count">>)
                EXCEPT !.threshold = 2, !.timewindow = 1] >>,
         << RuleAction(<<"create_incident">>) >>)

ConcurrentDirs == { << RuleFile(Burst) >> }

ConcurrentRequests ==
    { EventRequest(<<"authentication_failed">>, <<"ssh", "-server">>, <<"medium">>,
                   Map(<<"username">> :> Str(<<"admin">>))) }

\* one goroutine more than in the other specifications
ConcurrentEvals == 1..(MaxEvents + 1)

InitConcurrent == \E db \in StoredTables : InitWith(db, ConcurrentEvals)

NextConcurrent ==
    \/ \E dir \in ConcurrentDirs : LoadRules(dir)
    \/ Tick
    \/ \E e \in ConcurrentEvals, req \in ConcurrentRequests : CreateEvent(e, req)
    \/ \E e \in ConcurrentEvals : EvaluateEvent(e)
    \/ \E e \in ConcurrentEvals : MatchesRule(e)
    \/ \E e \in ConcurrentEvals : ExecuteRuleAction(e)
    \/ \E e \in ConcurrentEvals : MarkProcessed(e)

SpecConcurrent == InitConcurrent /\ [][NextConcurrent]_vars

---------------------------------------------------------------------------
(* Interpolation on its own: orchestrator.go, interpolateParameters *)

\* a template is written as a sequence of pieces: a text, or a placeholder
\* with the blanks that surround its path
Text(s) == [hole |-> FALSE, text |-> s, path |-> <<>>, pad |-> <<>>]
Hole(parts, pad) == [hole |-> TRUE, text |-> <<>>, path |-> parts, pad |-> pad]

Render(pieces) ==
    Concat([i \in DOMAIN pieces |->
               IF pieces[i].hole
               THEN <<"{", "{">> \o pieces[i].pad \o Dotted(pieces[i].path)
                        \o pieces[i].pad \o <<"}", "}">>
               ELSE pieces[i].text])

TemplatePool ==
    { << Hole(<<"inputs", "ip">>, <<" ">>) >>,
      << Text(<<"Blocked", " ">>), Hole(<<"inputs", "ip">>, <<" ">>),
         Text(<<" ", "for", " ">>), Hole(<<"inputs", "who">>, <<>>) >>,
      << Hole(<<"inputs", "count">>, <<" ", " ">>) >>,
      << Hole(<<"inputs", "meta", "owner">>, <<" ">>) >>,
      << Hole(<<"inputs", "meta">>, <<" ">>) >>,
      << Hole(<<"inputs", "absent">>, <<" ">>) >>,
      << Hole(<<"inputs", "absent", "deeper">>, <<" ">>) >>,
      << Hole(<<"inputs", "ip", "deeper">>, <<" ">>) >>,
      << Hole(<<"steps", "open", "output", "incident_id">>, <<" ">>) >>,
      << Hole(<<"steps", "block", "output", "ip_address">>, <<" ">>) >>,
      << Text(<<"call:", " ">>), Hole(<<"steps", "call", "error">>, <<" ">>) >>,
      << Hole(<<"steps", "missing", "output">>, <<" ">>) >>,
      << Hole(<<"env", "GRAFANA_TOKEN">>, <<" ">>) >>,
      << Text(<<"paging">>) >>,
      << Text(<<"a", ".", "b", " ", "}", "}", " ", "{">>) >> }

\* the parameters of a step that hold the string s: at the top, and in a
\* nested map next to values that are not strings
Flat(s) == <<"message">> :> Str(s)
Nested(s) ==
    (<<"url">> :> Str(<<"http://fw">>))
    @@ (<<"body">> :> Map((<<"ip">> :> Str(s)) @@ (<<"count">> :> IntV(2))))
    @@ (<<"duration">> :> IntV(60))
    @@ (<<"args">> :> Other(<<"[-v]">>))

\* the parameters of a python_script step: the template is an element of
\* the list of arguments
Listed(s) ==
    (<<"script">> :> Str(<<"./scripts/analyze", ".", "py">>))
    @@ (<<"args">> :> List(<< Str(s), Str(<<"--model">>), IntV(2) >>))
    @@ (<<"timeout">> :> IntV(30))
    @@ (<<"verbose">> :> BoolV(TRUE))
    @@ (<<"meta">> :> Map(<<"tags">> :> List(<< Str(s) >>)))

ParameterMaps ==
    { Flat(Render(t)) : t \in TemplatePool }
    \cup { Nested(Render(t)) : t \in TemplatePool }
    \cup { Listed(Render(t)) : t \in TemplatePool }

\* what the handlers of three earlier steps have returned
Opened == CHOOSE o \in CreateIncidentExecute(EmptyMap, <<>>) : o.err = Nil
Blocked ==
    CHOOSE o \in BlockIPExecute(<<"ip_address">> :> Str(<<"10", ".", "0", ".", "0", ".", "9">>),
                                <<>>) : TRUE
Refused ==
    CHOOSE o \in HTTPRequestExecute(<<"url">> :> Str(<<"http://fw">>), <<>>) : o.err # Nil

StepNamed(id) == PlaybookStep(id, <<>>, EmptyMap, <<>>, <<>>)

\* the contexts of a run: inputs as the caller passed them, and the steps
\* stored by the iterations before
ContextPool ==
    { storeStep(storeStep(storeStep(
          Map(<<"inputs">> :>
                Map((<<"ip">> :> Str(<<"10", ".", "0", ".", "0", ".", "9">>))
                    @@ (<<"who">> :> Str(<<"admin">>))
                    @@ (<<"count">> :> IntV(3))
                    @@ (<<"meta">> :> Map(<<"owner">> :> Str(<<"soc">>))))),
          StepNamed(<<"open">>), Opened.result, Opened.err),
          StepNamed(<<"block">>), Blocked.result, Blocked.err),
          StepNamed(<<"call">>), Refused.result, Refused.err),
      Map(<<"inputs">> :> Map(EmptyMap)),
      Map(<<"inputs">> :> Map((<<"ip">> :> Str(Tpl(<<"inputs", "who">>)))
                              @@ (<<"who">> :> Str(<<"root">>)))),
      Map(<<"inputs">> :> Map(<<"ip">> :> Str(Tpl(<<"inputs", "ip">>)))) }

\* a run about to interpolate the parameters of a step against its context
InitInterpolate ==
    /\ booted = TRUE
    /\ playbooks = EmptyMap
    /\ actionLogs = <<>>
    /\ incidents = <<>>
    /\ events = <<>>
    /\ args = [r \in Runs |-> NoArgs]
    /\ pc = [r \in Runs |-> "interpolate"]
    /\ \E params \in ParameterMaps :
          playbook = [r \in Runs |->
                        [id |-> <<"pb">>, inputs |-> <<>>,
                         steps |-> << PlaybookStep(<<"step">>, <<"notify">>, params,
                                                   <<>>, <<>>) >>]]
    /\ \E ctx \in ContextPool : context = [r \in Runs |-> ctx]
    /\ stepIdx = [r \in Runs |-> 1]
    /\ call = [r \in Runs |-> NoCall]
    /\ ret = [r \in Runs |-> NoReturn]
    /\ trace = [r \in Runs |-> <<>>]
    /\ rulesLoaded = FALSE
    /\ rules = <<>>
    /\ clock = 0
    /\ evals = [e \in Evals |-> NoEval]
    /\ updates = [u \in Updaters |-> NoUpdate]
    /\ load = NoLoad

\* interpolateParameters(step.Parameters, context)
InterpolateParameters(r) ==
    /\ pc[r] = "interpolate"
    /\ LET step == playbook[r].steps[stepIdx[r]]
       IN IF interpolationHangs(step.parameters, context[r])
          THEN /\ pc' = [pc EXCEPT ![r] = "hung"]
               /\ UNCHANGED call
          ELSE /\ call' = [call EXCEPT ![r].params =
                              interpolateParameters(step.parameters, context[r])]
               /\ pc' = [pc EXCEPT ![r] = "interpolated"]
    /\ UNCHANGED <<booted, playbooks, actionLogs, incidents, playbook, context,
                   stepIdx, ret, args, trace>>
    /\ UNCHANGED <<detectionVars, inFlightVars>>

\* interpolateParameters applied to what it returned
InterpolateAgain(r) ==
    /\ pc[r] = "interpolated"
    /\ call' = [call EXCEPT ![r].params = interpolateParameters(@, context[r])]
    /\ pc' = [pc EXCEPT ![r] = "twice"]
    /\ UNCHANGED <<booted, playbooks, actionLogs, incidents, playbook, context,
                   stepIdx, ret, args, trace>>
    /\ UNCHANGED <<detectionVars, inFlightVars>>

NextInterpolate ==
    \/ \E r \in Runs : InterpolateParameters(r)
    \/ \E r \in Runs : InterpolateAgain(r)

SpecInterpolate == InitInterpolate /\ [][NextInterpolate]_vars

---------------------------------------------------------------------------
(* Playbooks whose steps refer to earlier steps and to the environment:
   INTEGRATION_GUIDE.md *)

\* the environment of the process
Environ == <<"GRAFANA_TOKEN">> :> <<"Bearer", " ", "XYZ">>

\* an incident is opened and its id is passed on
Contain ==
    [id |-> <<"contain">>,
     inputs |-> << PlaybookInput(<<"ip">>, TRUE) >>,
     steps |-> << PlaybookStep(<<"open">>, <<"create_incident">>,
                               (<<"title">> :> Str(<<"Brute", " ", "force">>))
                               @@ (<<"priority">> :> Str(<<"high">>)),
                               <<"abort">>, <<>>),
                  PlaybookStep(<<"tell">>, <<"notify">>,
                               Flat(Render(<< Text(<<"opened", " ">>),
                                              Hole(<<"steps", "open", "output",
                                                     "incident_id">>, <<" ">>) >>)),
                               <<"continue">>, <<>>),
                  PlaybookStep(<<"echo">>, <<"notify">>,
                               Flat(Render(<< Text(<<"told", " ">>),
                                              Hole(<<"steps", "tell", "output",
                                                     "status">>, <<" ">>) >>)),
                               <<>>, <<>>) >>]

\* a script is run and the address is blocked afterwards
Script ==
    [id |-> <<"script">>,
     inputs |-> << PlaybookInput(<<"ip">>, TRUE) >>,
     steps |-> << PlaybookStep(<<"run">>, <<"shell_script">>,
                               <<"script">> :> Str(<<"./isolate", " ">>
                                                   \o Tpl(<<"inputs", "ip">>)),
                               <<>>, <<>>),
                  PlaybookStep(<<"block">>, <<"block_ip">>,
                               <<"ip_address">> :> Str(Tpl(<<"inputs", "ip">>)),
                               <<"abort">>, <<>>),
                  PlaybookStep(<<"tell">>, <<"notify">>,
                               Flat(Render(<< Text(<<"blocked", " ">>),
                                              Hole(<<"steps", "block", "output",
                                                     "ip_address">>, <<" ">>) >>)),
                               <<>>, <<>>) >>]

\* a request carries a credential of the environment
Token ==
    [id |-> <<"token">>,
     inputs |-> <<>>,
     steps |-> << PlaybookStep(<<"call">>, <<"http_request">>,
                               (<<"url">> :> Str(<<"http://grafana/api">>))
                               @@ (<<"headers">> :>
                                     Map(<<"Authorization">> :>
                                           Str(Tpl(<<"env", "GRAFANA_TOKEN">>)))),
                               <<"continue">>, <<>>) >>]

\* a request whose failure policy is neither abort nor continue
Retry ==
    [id |-> <<"retry">>,
     inputs |-> <<>>,
     steps |-> << PlaybookStep(<<"call">>, <<"http_request">>,
                               <<"url">> :> Str(<<"http://grafana/api">>),
                               <<"retry">>, <<>>),
                  PlaybookStep(<<"tell">>, <<"notify">>,
                               <<"message">> :> Str(<<"paging">>),
                               <<>>, <<>>) >>]

\* a script that writes a word, and the analysis of the guide run by an
\* interpreter that is installed and by one that is not
Tools ==
    [id |-> <<"tools">>,
     inputs |-> <<>>,
     steps |-> << PlaybookStep(<<"say">>, <<"shell_script">>,
                               <<"script">> :> Str(<<"echo", " ", "done">>),
                               <<"continue">>, <<>>),
                  PlaybookStep(<<"analyze">>, <<"python_script">>,
                               Listed(Tpl(<<"inputs", "ip">>)),
                               <<"continue">>, <<>>),
                  PlaybookStep(<<"again">>, <<"python_script">>,
                               Listed(Tpl(<<"inputs", "ip">>))
                               @@ (<<"python">> :> Str(<<"/opt/py/bin/python">>)),
                               <<"continue">>, <<>>) >>]

ChainDirs ==
    { << File(Contain), File(Script), File(Token), File(Retry), File(Tools) >> }

ChainIDs == { Contain.id, Script.id, Token.id, Retry.id, Tools.id }

ChainInputs == { <<"ip">> :> Str(<<"10", ".", "0", ".", "0", ".", "9">>), EmptyMap }

LoadChainPlaybooks ==
    /\ ~booted
    /\ booted' = TRUE
    /\ \E dir \in ChainDirs : playbooks' = loadFiles(dir, playbooks)
    /\ UNCHANGED <<detectionVars, inFlightVars>>
    /\ UNCHANGED <<actionLogs, incidents, pc, playbook, context, stepIdx, call,
                   ret, args, trace>>

NextChain ==
    \/ LoadChainPlaybooks
    \/ \E r \in Runs, playbookID \in ChainIDs, inputs \in ChainInputs :
           ExecutePlaybook(r, playbookID, inputs)
    \/ \E r \in Runs : Dispatch(r)
    \/ \E r \in Runs : InvokeHandler(r)
    \/ \E r \in Runs : FinishExecute(r)
    \/ \E r \in Runs : StepReturn(r)
    \/ \E r \in Runs : Complete(r)

SpecChain == Init /\ [][NextChain]_vars

---------------------------------------------------------------------------
(* Updates of an incident: UpdateIncidentAction.Execute (actions.go) and
   IncidentsHandler.UpdateIncident (handlers), each a db.First, a change of
   the copy it read and a db.Save of the whole row.  The column assigned_to
   is not carried by the rows of the model. *)

\* the incident ids a request names
RequestedIDs == { NewID("inc-", 1), NewID("inc-", 9), <<>> }

\* the fields a request gives: the parameters status and notes of the action,
\* the JSON body of the PATCH
UpdateBodies ==
    { EmptyMap,
      <<"notes">> :> Str(<<"first">>),
      <<"notes">> :> Str(<<"second">>),
      <<"status">> :> Str(<<"investigating">>),
      (<<"notes">> :> Str(<<"third">>)) @@ (<<"status">> :> Str(<<"contained">>)),
      <<"notes">> :> IntV(7) }

\* models.IncidentStatus(status)
IncidentStatus(status) == IF status = <<>> THEN "" ELSE Head(status)

\* the row with the given incident_id, 0 when there is none
rowOf(incs, id) ==
    IF \E i \in DOMAIN incs : incs[i].incident_id = id
    THEN CHOOSE i \in DOMAIN incs : incs[i].incident_id = id
    ELSE 0

\* incident.Notes += "\n" + notes, or the notes alone on an incident without
withNotes(incident, notes) ==
    [incident EXCEPT !.notes = IF incident.notes # <<>>
                               THEN incident.notes \o <<"\n">> \o notes
                               ELSE notes]

\* the copy of the incident with the fields of the request applied
modified(incident, body) ==
    LET withStatus ==
            IF <<"status">> \in DOMAIN body /\ body[<<"status">>].t = "str"
            THEN [incident EXCEPT !.status = IncidentStatus(body[<<"status">>].v)]
            ELSE incident
    IN IF <<"notes">> \in DOMAIN body /\ body[<<"notes">>].t = "str"
       THEN withNotes(withStatus, body[<<"notes">>].v)
       ELSE withStatus

\* the calls that change an incident: the action, the PATCH and the POST
\* /incidents/:id/resolve, which has no body
UpdateCalls ==
    { [kind |-> kind, id |-> id, body |-> body] :
        kind \in {"update_incident", "PATCH"}, id \in RequestedIDs,
        body \in UpdateBodies }
    \cup { [kind |-> "resolve", id |-> id, body |-> EmptyMap] : id \in RequestedIDs }

\* the copy of the incident as the call saves it
changed(incident, kind, body) ==
    IF kind = "resolve" THEN [incident EXCEPT !.status = "resolved"]
    ELSE modified(incident, body)

\* the request is taken up and the incident is read: db.First.  The action
\* refuses an empty incident_id; the PATCH binds its body after the read and
\* refuses a field that is not a string
FirstIncident(u) ==
    /\ updates[u].pc = "idle"
    /\ \E req \in UpdateCalls :
          LET kind == req.kind
              id == req.id
              body == req.body
              at == rowOf(incidents, id)
              call0 == [updates[u] EXCEPT !.kind = kind, !.id = id, !.body = body]
              refused(why) == [call0 EXCEPT !.pc = "done", !.outcome = why]
          IN updates' = [updates EXCEPT ![u] =
                CASE kind = "update_incident" /\ id = <<>> -> refused("required")
                  [] at = 0 -> refused("not found")
                  [] kind = "PATCH" /\ \E k \in DOMAIN body : body[k].t # "str" ->
                        refused("bad request")
                  [] OTHER -> [call0 EXCEPT !.pc = "read", !.at = at,
                                            !.incident =
                                               changed(incidents[at], kind, body)]]
    /\ UNCHANGED <<incidents, load>>
    /\ UNCHANGED <<orchestratorVars, detectionVars>>

\* db.Save(&incident): the whole row is written, or the write fails
SaveIncident(u) ==
    /\ updates[u].pc = "read"
    /\ \/ /\ incidents' = [incidents EXCEPT ![updates[u].at] = updates[u].incident]
          /\ updates' = [updates EXCEPT ![u].pc = "done", ![u].outcome = "updated"]
       \/ /\ UNCHANGED incidents
          /\ updates' = [updates EXCEPT ![u].pc = "done", ![u].outcome = "failed"]
    /\ UNCHANGED <<orchestratorVars, detectionVars, load>>

NextNotes ==
    \/ \E u \in Updaters : FirstIncident(u)
    \/ \E u \in Updaters : SaveIncident(u)

SpecNotes == Init /\ [][NextNotes]_vars

---------------------------------------------------------------------------
(* LoadRules called again while events are evaluated.  The engine has one
   field rules, written by LoadRules and read by the range statement of
   EvaluateEvent with no lock.  The steps of the load are taken while no
   evaluation is inside its range loop, so that rules is the slice the range
   statement of every evaluation read. *)

Watch ==
    Rule(<<"watch">>, <<"Watch">>, <<"low">>, TRUE,
         << [Condition(<<"event_type">>, <<"equals">>)
                EXCEPT !.value = Str(<<"authentication_failed">>)] >>,
         << RuleAction(<<"notify">>) >>)

\* the directory of the boot
BootDirs == { << RuleFile(CatchAll) >> }

\* the directory of the later load
ReloadDirs ==
    { << RuleFile(Watch), BadRuleFile, RuleFile(Disabled), RuleFile(CatchAll) >> }

\* no call of EvaluateEvent is inside its loop over the rules
NoneInLoop == \A e \in DOMAIN evals : evals[e].pc \in {"idle", "called", "mark", "done"}

\* LoadRules up to the loop: the files are listed and de.rules = []Rule{}
BeginLoadRules(dir) ==
    /\ rulesLoaded
    /\ load.pc = "idle"
    /\ NoneInLoop
    /\ load' = [pc |-> "loop", files |-> dir, dir |-> dir, old |-> rules]
    /\ rules' = <<>>
    /\ UNCHANGED <<rulesLoaded, events, clock, evals, incidents, updates>>
    /\ UNCHANGED orchestratorVars

\* LoadRules: one iteration of the loop over the files, or its end
LoadRuleFile ==
    /\ load.pc = "loop"
    /\ NoneInLoop
    /\ IF load.files = <<>>
       THEN /\ load' = [load EXCEPT !.pc = "done"]
            /\ UNCHANGED rules
       ELSE /\ load' = [load EXCEPT !.files = Tail(@)]
            /\ rules' = loadRuleFiles(<< Head(load.files) >>, rules)
    /\ UNCHANGED <<rulesLoaded, events, clock, evals, incidents, updates>>
    /\ UNCHANGED orchestratorVars

NextReload ==
    \/ \E dir \in BootDirs : LoadRules(dir)
    \/ \E dir \in ReloadDirs : BeginLoadRules(dir)
    \/ LoadRuleFile
    \/ Tick
    \/ \E e \in Evals, req \in ConcurrentRequests : CreateEvent(e, req)
    \/ \E e \in Evals : EvaluateEvent(e)
    \/ \E e \in Evals : MatchesRule(e)
    \/ \E e \in Evals : ExecuteRuleAction(e)
    \/ \E e \in Evals : MarkProcessed(e)

SpecReload == InitScenario /\ [][NextReload]_vars

---------------------------------------------------------------------------
(* Two calls of ExecutePlaybook at a time: the method takes no lock and
   may be called from any goroutine *)

TwoRuns == {1, 2}

\* what a step of the two playbooks is written with
BlockTemplate == << Hole(<<"inputs", "ip">>, <<" ">>) >>

TellTemplate ==
    << Text(<<"blocked", " ">>),
       Hole(<<"steps", "block", "output", "ip_address">>, <<" ">>),
       Text(<<" ", "for", " ">>),
       Hole(<<"inputs", "who">>, <<>>) >>

\* an address is blocked and the block is announced
Alpha ==
    [id |-> <<"alpha">>,
     inputs |-> << PlaybookInput(<<"ip">>, TRUE) >>,
     steps |-> << PlaybookStep(<<"call">>, <<"http_request">>,
                               <<"url">> :> Str(<<"http://fw">>), <<>>, <<>>),
                  PlaybookStep(<<"block">>, <<"block_ip">>,
                               <<"ip_address">> :> Str(Render(BlockTemplate)),
                               <<"continue">>, <<>>),
                  PlaybookStep(<<"tell">>, <<"notify">>,
                               Flat(Render(TellTemplate)), <<>>, <<>>) >>]

\* the announcement alone: no step block has run when it is interpolated
Beta ==
    [id |-> <<"beta">>,
     inputs |-> <<>>,
     steps |-> << PlaybookStep(<<"tell">>, <<"notify">>,
                               Flat(Render(TellTemplate)), <<>>, <<>>),
                  PlaybookStep(<<"again">>, <<"notify">>,
                               Flat(Render(TellTemplate)), <<>>, <<>>) >>]

RunsDir == << File(Alpha), File(Beta) >>

RunsIDs == { Alpha.id, Beta.id }

RunsInputs ==
    { (<<"ip">> :> Str(<<"10", ".", "0", ".", "0", ".", "9">>))
      @@ (<<"who">> :> Str(<<"admin">>)),
      (<<"ip">> :> Str(<<"192", ".", "168", ".", "1", ".", "7">>))
      @@ (<<"who">> :> Str(<<"root">>)) }

InitRuns ==
    InitOver([actionLogs |-> <<>>, incidents |-> <<>>, events |-> <<>>],
             Evals, TwoRuns)

LoadRunsPlaybooks ==
    /\ ~booted
    /\ booted' = TRUE
    /\ playbooks' = loadFiles(RunsDir, playbooks)
    /\ UNCHANGED <<detectionVars, inFlightVars>>
    /\ UNCHANGED <<actionLogs, incidents, pc, playbook, context, stepIdx, call,
                   ret, args, trace>>

NextRuns ==
    \/ LoadRunsPlaybooks
    \/ \E r \in TwoRuns, playbookID \in RunsIDs, inputs \in RunsInputs :
           EnterExecutePlaybook(r, playbookID, inputs)
    \/ \E r \in TwoRuns : Dispatch(r)
    \/ \E r \in TwoRuns : InvokeHandler(r)
    \/ \E r \in TwoRuns : FinishExecute(r)
    \/ \E r \in TwoRuns : StepReturn(r)
    \/ \E r \in TwoRuns : Complete(r)

SpecRuns == InitRuns /\ [][NextRuns]_vars

---------------------------------------------------------------------------
(* The audit trail when the database can refuse the insert of a row:
   actions.go *)

NextAudit ==
    \/ LoadChainPlaybooks
    \/ \E r \in Runs, playbookID \in ChainIDs, inputs \in ChainInputs :
           ExecutePlaybook(r, playbookID, inputs)
    \/ \E r \in Runs, created \in BOOLEAN : DispatchWith(r, created)
    \/ \E r \in Runs : InvokeHandler(r)
    \/ \E r \in Runs : FinishExecute(r)
    \/ \E r \in Runs : FinishUnlogged(r)
    \/ \E r \in Runs : StepReturn(r)
    \/ \E r \in Runs : Complete(r)

SpecAudit == Init /\ [][NextAudit]_vars

---------------------------------------------------------------------------
(* Claims about the orchestrator and the action registry *)

Entries(r) == 1..Len(trace[r])

StepOf(r, i) == playbook[r].steps[trace[r][i].step]

IsSuffix(suffix, s) ==
    /\ Len(suffix) <= Len(s)
    /\ SubSeq(s, Len(s) - Len(suffix) + 1, Len(s)) = suffix

IsPrefix(prefix, s) ==
    /\ Len(prefix) <= Len(s)
    /\ SubSeq(s, 1, Len(prefix)) = prefix

\* C1: when the dispatch of a step whose on_failure is "abort" or unset has
\* returned an error, that dispatch is the last one of the run, and the run
\* returns an error that wraps the step's error.
C1_AbortStopsRun ==
    \A r \in Runs : \A i \in Entries(r) :
        LET e == trace[r][i]
        IN (e.returned /\ e.err # Nil
              /\ StepOf(r, i).on_failure \in {<<"abort">>, <<>>})
           => /\ i = Len(trace[r])
              /\ pc[r] \in {"returned", "done"}
              /\ pc[r] = "done" =>
                    /\ ret[r].returned
                    /\ ret[r].err.t = "err"
                    /\ ret[r].cause = e.err
                    /\ IsSuffix(e.err.v, ret[r].err.v)

\* a run has aborted on a failing step that had declared steps after it
C1_Witness ==
    \E r \in Runs :
        /\ pc[r] = "done"
        /\ trace[r] # <<>>
        /\ trace[r][Len(trace[r])].err # Nil
        /\ stepIdx[r] < Len(playbook[r].steps)
        /\ playbook[r].steps[stepIdx[r]].on_failure \in {<<>>, <<"abort">>}
        /\ ret[r].cause = trace[r][Len(trace[r])].err

\* the strings of a parameter map, each named by the keys that lead to it
RECURSIVE StringPaths(_)
StringPaths(params) ==
    UNION { CASE params[k].t = "str" -> {<<k>>}
              [] params[k].t = "map" -> { <<k>> \o p : p \in StringPaths(params[k].v) }
              [] OTHER -> {}
            : k \in DOMAIN params }

RECURSIVE ParamAt(_, _)
ParamAt(params, path) ==
    IF Len(path) = 1 THEN params[path[1]]
    ELSE ParamAt(params[path[1]].v, Tail(path))

\* "{{ steps.<id>.error }}", with and without the inner spaces
ErrorTemplates(id) ==
    { Tpl(<<"steps">> \o id \o <<"error">>), TplTight(<<"steps">> \o id \o <<"error">>) }

\* C2: when step k has failed under on_failure "continue", the run goes on
\* to dispatch step k+1, and every parameter of step k+1 that ends in the
\* template {{ steps.<id of k>.error }} is dispatched with the template
\* replaced by the message of the error step k returned.
C2_ContinueExposesError ==
    \A r \in Runs : \A i \in Entries(r) :
        LET e == trace[r][i]
        IN (e.returned /\ e.err # Nil /\ StepOf(r, i).on_failure = <<"continue">>
              /\ e.step < Len(playbook[r].steps))
           => /\ pc[r] # "done" \/ i < Len(trace[r])
              /\ i < Len(trace[r]) =>
                   /\ trace[r][i + 1].step = e.step + 1
                   /\ \A path \in StringPaths(StepOf(r, i + 1).parameters) :
                        \A tpl \in ErrorTemplates(StepOf(r, i).id) :
                          LET raw == ParamAt(StepOf(r, i + 1).parameters, path).v
                          IN IsSuffix(tpl, raw) =>
                               ParamAt(trace[r][i + 1].params, path)
                                 = Str(SubSeq(raw, 1, Len(raw) - Len(tpl)) \o e.err.v)

\* the step after a failed "continue" step has been dispatched with the
\* failed step's error message in a parameter
C2_Witness ==
    \E r \in Runs : \E i \in Entries(r) :
        /\ i < Len(trace[r])
        /\ trace[r][i].err # Nil
        /\ StepOf(r, i).on_failure = <<"continue">>
        /\ \E path \in StringPaths(StepOf(r, i + 1).parameters) :
             /\ \E tpl \in ErrorTemplates(StepOf(r, i).id) :
                   IsSuffix(tpl, ParamAt(StepOf(r, i + 1).parameters, path).v)
             /\ IsSuffix(trace[r][i].err.v, ParamAt(trace[r][i + 1].params, path).v)

\* C3: the i-th dispatch of a run is the dispatch of the i-th declared step,
\* it happens only once every earlier dispatch has returned, and a run that
\* returns nil has dispatched every declared step.
C3_SequentialInOrder ==
    \A r \in Runs :
        /\ \A i \in Entries(r) :
             /\ trace[r][i].step = i
             /\ i < Len(trace[r]) => trace[r][i].returned
        /\ Len(trace[r]) <= Len(playbook[r].steps)
        /\ pc[r] = "loop" => Len(trace[r]) = stepIdx[r] - 1
        /\ (pc[r] = "done" /\ ret[r].err = Nil) =>
               Len(trace[r]) = Len(playbook[r].steps)

\* a run of three steps has returned nil although one of them failed
C3_Witness ==
    \E r \in Runs :
        /\ pc[r] = "done"
        /\ ret[r].err = Nil
        /\ Len(trace[r]) = 3
        /\ \E i \in Entries(r) : trace[r][i].err # Nil

\* the log row of a dispatch
RowOf(e) == actionLogs[e.row]

C4_Rows ==
    /\ \A r \in Runs : \A i \in Entries(r) :
         LET e == trace[r][i]
         IN e.actionType \in RegisteredActions =>
              /\ e.row \in 1..Len(actionLogs)
              /\ RowOf(e).action_type = e.actionType
              /\ ~e.invoked => RowOf(e).status = "running"
              /\ e.returned =>
                   RowOf(e).status = (IF e.err # Nil THEN "failed" ELSE "completed")
              /\ \A q \in Runs : \A j \in Entries(q) :
                   (<<q, j>> # <<r, i>>) => trace[q][j].row # e.row
    /\ \A n \in 1..Len(actionLogs) :
         actionLogs[n].status = "running" =>
            \E r \in Runs : pc[r] \in {"handler", "finish"} /\ call[r].row = n

\* the dispatches of registered actions made so far
RegisteredDispatches(tr) ==
    Cardinality({ <<r, i>> \in Runs \X (1..MaxSteps) :
                    i <= Len(tr[r]) /\ tr[r][i].actionType \in RegisteredActions })

C4_Step ==
    /\ Len(actionLogs') - Len(actionLogs)
         = RegisteredDispatches(trace') - RegisteredDispatches(trace)
    /\ \A n \in 1..Len(actionLogs) :
         actionLogs[n].status \in {"completed", "failed"} =>
            actionLogs'[n].status = actionLogs[n].status

C5_EveryErrorLogged ==
    \A r \in Runs : \A i \in Entries(r) :
        LET e == trace[r][i]
        IN (e.returned /\ e.err # Nil) =>
              /\ e.row \in 1..Len(actionLogs)
              /\ RowOf(e).status = "failed"

\* the call names a playbook that is not loaded, or lacks a required input
BadCall(r) ==
    \/ args[r].playbookID \notin DOMAIN playbooks
    \/ \E i \in 1..Len(playbooks[args[r].playbookID].inputs) :
         LET input == playbooks[args[r].playbookID].inputs[i]
         IN input.required /\ input.name \notin DOMAIN args[r].inputs

C6_Returned ==
    \A r \in Runs :
        (pc[r] # "idle" /\ BadCall(r)) =>
            /\ pc[r] = "done"
            /\ ret[r].returned /\ ret[r].err.t = "err"
            /\ trace[r] = <<>>

C6_Step ==
    \A r \in Runs :
        (pc[r] = "idle" /\ pc'[r] = "done") => UNCHANGED <<actionLogs, incidents>>

\* C6: a call with an unknown playbook id or without a required input
\* returns an error at once: it dispatches nothing and leaves the
\* action_logs and incidents tables as they were.
C6_PlaybookLevelErrors == []C6_Returned /\ [][C6_Step]_vars

\* a call without a required input has returned over tables that hold rows
C6_Witness ==
    \E r \in Runs :
        /\ pc[r] = "done"
        /\ args[r].playbookID \in DOMAIN playbooks
        /\ BadCall(r)
        /\ incidents # <<>> /\ actionLogs # <<>>

MissingInputError(name) ==
    Err(Words(<<"missing", "required", "input:">>) \o <<" ">> \o name)

\* C7: the call returns the missing-input error exactly when some required
\* input is absent, and the error then names the first absent required
\* input in declaration order.
C7_FirstMissingInput ==
    \A r \in Runs :
        (pc[r] # "idle" /\ args[r].playbookID \in DOMAIN playbooks) =>
            LET decl == playbooks[args[r].playbookID].inputs
                absent == { i \in 1..Len(decl) :
                              decl[i].required /\ decl[i].name \notin DOMAIN args[r].inputs }
            IN /\ absent # {} =>
                    \E i \in absent :
                       /\ \A j \in absent : i <= j
                       /\ ret[r].err = MissingInputError(decl[i].name)
               /\ absent = {} =>
                    ~IsPrefix(Words(<<"missing", "required", "input:">>), ret[r].err.v)

\* a call that lacks both required inputs and the optional one has
\* returned the error that names the first required one
C7_Witness ==
    \E r \in Runs :
        /\ pc[r] = "done"
        /\ args[r].playbookID \in DOMAIN playbooks
        /\ args[r].inputs = EmptyMap
        /\ ret[r].err = MissingInputError(<<"ip">>)

\* the truthy convention for a step condition
Truthy(s) == s = <<"true">>

\* C8: a step that declares a condition is dispatched only when the
\* condition, interpolated against the context of the run, is truthy.
C8_ConditionGuardsStep ==
    \A r \in Runs :
        (pc[r] \in {"handler", "finish", "returned"}) =>
            LET step == playbook[r].steps[stepIdx[r]]
            IN step.condition # <<>> =>
                 Truthy(interpolateString(step.condition, context[r]))

---------------------------------------------------------------------------
(* Claims about the detection engine *)

ExpectedFired(ev) ==
    Concat([i \in 1..Len(ev.evaluated) |->
               IF ev.evaluated[i].matched
               THEN [k \in 1..Len(rules[ev.evaluated[i].rule].actions) |->
                        <<ev.evaluated[i].rule, k>>]
               ELSE <<>>])

\* C10: an evaluation that got past parsing and has returned has evaluated
\* every loaded rule in load order and has run every action of every rule
\* that matched, in declared order, whatever action failed or was of an
\* unknown type
C10_ActionsNeverAbort ==
    \A e \in Evals :
        evals[e].returned /\ evals[e].err = Nil =>
            /\ [i \in DOMAIN evals[e].evaluated |-> evals[e].evaluated[i].rule]
                   = [i \in 1..Len(rules) |-> i]
            /\ [i \in DOMAIN evals[e].fired |->
                    <<evals[e].fired[i].rule, evals[e].fired[i].action>>]
                   = ExpectedFired(evals[e])

\* a returned evaluation in which an action of unknown type and a
\* create_incident that failed were each followed by an action of the same
\* rule, and a later rule matched and ran its actions
C10_Witness ==
    \E e \in Evals :
        /\ evals[e].returned
        /\ evals[e].err = Nil
        /\ LET fired == evals[e].fired
           IN \E i, j, k \in DOMAIN fired :
                /\ i < Len(fired) /\ j < Len(fired) /\ j < k
                /\ fired[i].outcome = "unknown"
                /\ fired[i + 1].rule = fired[i].rule
                /\ fired[j].outcome = "failed"
                /\ fired[j + 1].rule = fired[j].rule
                /\ fired[k].rule > fired[j].rule

\* the evaluation e ran a rule action of the given type in this step
Ran(e, type) ==
    /\ Len(evals'[e].fired) = Len(evals[e].fired) + 1
    /\ evals'[e].fired[Len(evals'[e].fired)].type = type

\* C11: a step in which an evaluation runs an execute_playbook action only
\* logs: no ActionLog row is written, no incident is created or updated, no
\* event is written, and no playbook step or action handler runs
C11_Step ==
    \A e \in DOMAIN evals :
        Ran(e, <<"execute_playbook">>) =>
            /\ evals'[e].fired[Len(evals'[e].fired)].outcome = "logged"
            /\ actionLogs' = actionLogs
            /\ incidents' = incidents
            /\ events' = events
            /\ trace' = trace
            /\ pc' = pc
            /\ call' = call

C11_PlaybookOnlyLogged == [][C11_Step]_vars

\* an evaluation has run an execute_playbook action, with the incidents the
\* rule's create_incident left
C11_Witness ==
    \E e \in DOMAIN evals : \E i \in DOMAIN evals[e].fired :
        /\ evals[e].fired[i].type = <<"execute_playbook">>
        /\ incidents # <<>>
        /\ \A r \in Runs : trace[r] = <<>>

---------------------------------------------------------------------------
(* Claims about the brute-force scenario *)

\* the five requests have been stored and their evaluations have returned
ScenarioOver ==
    /\ Len(events) = ScenarioThreshold
    /\ \A e \in DOMAIN evals : evals[e].pc = "done"

\* C12: once five authentication_failed events have been ingested and
\* evaluated against the brute-force rule, and the rule has matched and stored
\* its incident, the brute-force-response playbook has been executed and the
\* incident is contained
C12_BruteForceContained ==
    /\ rules = << BruteForceDetection >>
    /\ ScenarioOver
    /\ \E e \in DOMAIN evals : \E i \in DOMAIN evals[e].fired :
          evals[e].fired[i].outcome = "created"
    =>
        /\ \E i \in DOMAIN incidents :
              /\ incidents[i].triggered_by_rule = BruteForceDetection.id
              /\ incidents[i].status = "contained"
        /\ \E r \in Runs : trace[r] # <<>>

\* C14 as claimed: after five events of one type, stored and evaluated one at
\* a time from an empty store against the count rule, exactly one incident
\* exists, created by the fifth evaluation
C14_ExactlyOneIncident ==
    rules = << CountOnly >> /\ ScenarioOver =>
        /\ Len(incidents) = 1
        /\ \A e \in DOMAIN evals : e < ScenarioThreshold => evals[e].fired = <<>>
        /\ Len(evals[ScenarioThreshold].fired) = 1
        /\ evals[ScenarioThreshold].fired[1].outcome = "created"

\* C14 as amended: evaluations one to four run no action and create no
\* incident; the fifth runs create_incident exactly once, and afterwards one
\* incident exists if that action's write succeeded and none if it failed
C14_OneFiringAtFifth ==
    rules = << CountOnly >> =>
        /\ \A e \in DOMAIN evals : e < ScenarioThreshold => evals[e].fired = <<>>
        /\ (\A e \in DOMAIN evals : e < ScenarioThreshold => evals[e].pc # "done")
              => incidents = <<>>
        /\ ScenarioOver =>
              /\ Len(evals[ScenarioThreshold].fired) = 1
              /\ evals[ScenarioThreshold].fired[1].type = <<"create_incident">>
              /\ IF evals[ScenarioThreshold].fired[1].outcome = "created"
                 THEN /\ Len(incidents) = 1
                      /\ incidents[1].triggered_by_rule = CountOnly.id
                 ELSE incidents = <<>>

\* the scenario is over and the fifth evaluation has created the incident
C14_Witness ==
    /\ rules = << CountOnly >>
    /\ ScenarioOver
    /\ Len(incidents) = 1
    /\ clock > 0

---------------------------------------------------------------------------
(* Claims about the conditions *)

\* evaluation e has just evaluated a condition: the condition
Evaluated(e) == Len(evals'[e].results) = Len(evals[e].results) + 1

EvaluatedCond(e) == rules[evals[e].rule].conditions[evals[e].cond]

EvaluatedHolds(e) == evals'[e].results[Len(evals'[e].results)].holds

\* the stored events of the evaluated event's type that are no older than
\* the window of the condition
InWindow(e) ==
    { i \in DOMAIN events :
         /\ events[i].timestamp >= clock - EvaluatedCond(e).timewindow
         /\ events[i].event_type = evals[e].event.event_type }

C13_Step ==
    \A e \in DOMAIN evals :
        /\ Evaluated(e)
        /\ EvaluatedCond(e).operator = <<"count">>
        /\ EvaluatedCond(e).field = <<"event_type">>
        => (EvaluatedHolds(e) <=>
                Cardinality(InWindow(e)) >= EvaluatedCond(e).threshold)

\* C13: a count condition over event_type holds iff, when it is evaluated,
\* the stored events of the evaluated event's type with a timestamp of at
\* least now minus the window number at least the threshold
C13_CountInWindow == [][C13_Step]_vars

\* a count condition has failed with an older event of the same type, or an
\* event of another type, in the table
C13_Witness ==
    \E e \in DOMAIN evals : \E i \in DOMAIN evals[e].results :
        LET cond == rules[evals[e].results[i].rule].conditions[evals[e].results[i].cond]
        IN /\ cond.operator = <<"count">>
           /\ cond.field = <<"event_type">>
           /\ cond.threshold = 2
           /\ ~evals[e].results[i].holds
           /\ Len(events) = 2

\* the conditions of a returned or running evaluation with what they gave
ResultsOf(e) ==
    { [cond |-> rules[evals[e].results[i].rule].conditions[evals[e].results[i].cond],
       event |-> evals[e].event,
       normalized |-> evals[e].normalized,
       holds |-> evals[e].results[i].holds] : i \in 1..Len(evals[e].results) }

Results == UNION { ResultsOf(e) : e \in DOMAIN evals }

\* the parameter the operator of a condition needs is absent or of another
\* type, or the operator is not one of the six
Malformed(cond) ==
    CASE cond.operator = <<"equals">> -> cond.value = Nil
      [] cond.operator = <<"in">> -> cond.values = <<>>
      [] cond.operator = <<"greater_than">> -> cond.value.t # "float"
      [] cond.operator = <<"regex">> -> cond.pattern = <<>>
      [] cond.operator = <<"count">> -> cond.threshold = 0 \/ cond.timewindow = 0
      [] cond.operator = <<"count_distinct">> ->
            cond.threshold = 0 \/ cond.timewindow = 0 \/ cond.count_field = <<>>
      [] OTHER -> TRUE

\* C17: a condition whose operator's parameter is absent or of another type,
\* or whose operator is unknown, is false for every event
C17_FailClosed == \A r \in Results : Malformed(r.cond) => ~r.holds

\* the value evaluateCondition resolves for the field of a condition
Resolved(r) ==
    IF r.cond.field \in {<<"event_type">>, <<"source">>, <<"severity">>}
    THEN Str(r.event[r.cond.field[1]])
    ELSE getNestedField(r.normalized, r.cond.field)

\* C19: a greater_than condition holds iff the field's value and the
\* condition's value are both float64 and the first is the greater
C19_GreaterThanFloatsOnly ==
    \A r \in Results : r.cond.operator = <<"greater_than">> =>
        (r.holds <=> /\ Resolved(r).t = "float"
                     /\ r.cond.value.t = "float"
                     /\ Resolved(r).v > r.cond.value.v)

\* an integer in the rule file, below the number of the event, has not matched
C19_Witness ==
    \E r \in Results :
        /\ r.cond.operator = <<"greater_than">>
        /\ r.cond.value = IntV(3)
        /\ Resolved(r) = Float(5)
        /\ ~r.holds

\* C20: an equals condition holds iff the default texts of the field's value
\* and of the condition's value are the same, letter case included; the
\* fields event_type, source and severity are the event's own attributes
\* whatever the normalized payload holds
C20_EqualsDefaultText ==
    \A r \in Results : r.cond.operator = <<"equals">> =>
        (r.holds <=> Sprintf_v(Resolved(r)) = Sprintf_v(r.cond.value))

\* the payload has the source the condition asks for, the event another, and
\* the condition has failed
C20_Witness ==
    \E r \in Results :
        /\ r.cond.operator = <<"equals">>
        /\ r.cond.field = <<"source">>
        /\ r.normalized.t = "map"
        /\ MapGet(r.normalized.v, <<"source">>) = r.cond.value
        /\ r.event.source # r.cond.value.v
        /\ ~r.holds

---------------------------------------------------------------------------
(* Claims about the match of a rule *)

\* the evaluation has found condition c of rule i true
FoundTrue(ev, i, c) ==
    \E j \in DOMAIN ev.results :
        ev.results[j] = [rule |-> i, cond |-> c, holds |-> TRUE]

\* C18: a rule matches iff every one of its conditions was found true; a
\* rule without conditions matches in every evaluation, and all its actions
\* are run
C18_MatchIsConjunction ==
    \A e \in DOMAIN evals :
        /\ \A k \in DOMAIN evals[e].evaluated :
              LET i == evals[e].evaluated[k].rule
              IN evals[e].evaluated[k].matched <=>
                    \A c \in DOMAIN rules[i].conditions : FoundTrue(evals[e], i, c)
        /\ evals[e].returned /\ evals[e].err = Nil =>
              \A i \in DOMAIN rules : rules[i].conditions = <<>> =>
                 /\ \E k \in DOMAIN evals[e].evaluated :
                       evals[e].evaluated[k] = [rule |-> i, matched |-> TRUE]
                 /\ \A a \in DOMAIN rules[i].actions :
                       \E k \in DOMAIN evals[e].fired :
                          /\ evals[e].fired[k].rule = i
                          /\ evals[e].fired[k].action = a

\* a returned evaluation in which a rule without conditions matched and ran
\* its actions, and a rule whose first condition held and whose second did
\* not has not matched
C18_Witness ==
    \E e \in DOMAIN evals :
        /\ evals[e].returned
        /\ \E k \in DOMAIN evals[e].evaluated :
              /\ evals[e].evaluated[k].matched
              /\ rules[evals[e].evaluated[k].rule].conditions = <<>>
              /\ \E f \in DOMAIN evals[e].fired :
                    evals[e].fired[f].rule = evals[e].evaluated[k].rule
        /\ \E k \in DOMAIN evals[e].evaluated :
              LET i == evals[e].evaluated[k].rule
              IN /\ ~evals[e].evaluated[k].matched
                 /\ FoundTrue(evals[e], i, 1)
                 /\ [rule |-> i, cond |-> 2, holds |-> FALSE]
                        \in { evals[e].results[j] : j \in DOMAIN evals[e].results }

---------------------------------------------------------------------------
(* Claims about requests in parallel *)

\* the events that were stored when evaluation e began, of the evaluated
\* event's type and no older than the window of the condition
InWindowAtStart(e) ==
    { i \in 1..evals[e].began :
         /\ events[i].timestamp >= clock - EvaluatedCond(e).timewindow
         /\ events[i].event_type = evals[e].event.event_type }

C15_Step ==
    \A e \in DOMAIN evals :
        Evaluated(e) /\ EvaluatedCond(e).operator = <<"count">>
        => (EvaluatedHolds(e) <=>
                Cardinality(InWindowAtStart(e)) >= EvaluatedCond(e).threshold)

\* C15: what a count condition gives in an evaluation depends only on the
\* events stored before the evaluation began
C15_CountSeesOnlyEarlierEvents == [][C15_Step]_vars

C16_Step ==
    \A e \in DOMAIN evals :
        /\ Ran(e, <<"create_incident">>)
        /\ evals'[e].fired[Len(evals'[e].fired)].outcome = "created"
        => /\ Len(incidents') = Len(incidents) + 1
           /\ SubSeq(incidents', 1, Len(incidents)) = incidents
           /\ incidents'[Len(incidents')].triggered_by_rule = rules[evals[e].rule].id

\* C16: a create_incident that succeeds adds an incident of its rule whatever
\* incidents the rule has created before: nothing is de-duplicated
C16_NoDeduplication == [][C16_Step]_vars

\* two evaluations that both began after both events were stored have each
\* created an incident of the same rule
C16_Witness ==
    \E e1, e2 \in DOMAIN evals :
        /\ e1 # e2
        /\ evals[e1].began = evals[e2].began
        /\ evals[e1].fired # <<>> /\ evals[e1].fired[1].outcome = "created"
        /\ evals[e2].fired # <<>> /\ evals[e2].fired[1].outcome = "created"
        /\ evals[e1].fired[1].rule = evals[e2].fired[1].rule
        /\ Cardinality({ i \in DOMAIN incidents :
                            incidents[i].triggered_by_rule = Burst.id }) >= 2

---------------------------------------------------------------------------
(* Claims about the incident of a rule *)

\* the severities an event or an incident can have
SeverityLevels == { <<"info">>, <<"low">>, <<"medium">>, <<"high">>, <<"critical">> }

C21_Step ==
    \A e \in DOMAIN evals :
        /\ Ran(e, <<"create_incident">>)
        /\ evals'[e].fired[Len(evals'[e].fired)].outcome = "created"
        => LET rule == rules[evals[e].rule]
               incident == incidents'[Len(incidents')]
           IN /\ incident.status = "open"
              /\ rule.severity \in SeverityLevels => <<incident.severity>> = rule.severity
              /\ incident.category = rule.category
              /\ incident.title = rule.name
              /\ incident.triggered_by_rule = rule.id
              /\ incident.related_events
                    = <<"[\"">> \o evals[e].event.event_id \o <<"\"]">>

\* C21: the incident a create_incident rule action stores is open, has the
\* severity of the rule when that is one of info, low, medium, high and
\* critical, the category, the name and the id of the rule, and the id of
\* the triggering event as its only related event
C21_IncidentCopiesRule == [][C21_Step]_vars

---------------------------------------------------------------------------
(* Claims about interpolation *)

\* the path leads through nested maps to a key that is there
RECURSIVE Resolves(_, _)
Resolves(parts, current) ==
    \/ parts = <<>>
    \/ /\ current.t = "map"
       /\ <<Head(parts)>> \in DOMAIN current.v
       /\ Resolves(Tail(parts), current.v[<<Head(parts)>>])

RECURSIVE ValueAt(_, _)
ValueAt(parts, current) ==
    IF parts = <<>> THEN current
    ELSE ValueAt(Tail(parts), current.v[<<Head(parts)>>])

\* the template with the text of its value in the place of every
\* placeholder that resolves, and with the path itself in the place of
\* every other
Filled(pieces, ctx) ==
    Concat([i \in DOMAIN pieces |->
               IF ~pieces[i].hole THEN pieces[i].text
               ELSE IF Resolves(pieces[i].path, ctx)
                    THEN Sprintf_v(ValueAt(pieces[i].path, ctx))
                    ELSE Dotted(pieces[i].path)])

AllResolve(pieces, ctx) ==
    \A i \in DOMAIN pieces : pieces[i].hole => Resolves(pieces[i].path, ctx)

\* the step's parameters as written and as interpolated
Given(r) == playbook[r].steps[1].parameters
Got(r) == call[r].params

\* the parameters written from template t have come out as the texts say
FilledIn(r, t) ==
    /\ Given(r) = Flat(Render(t)) => Got(r) = Flat(Filled(t, context[r]))
    /\ Given(r) = Nested(Render(t)) => Got(r) = Nested(Filled(t, context[r]))

\* C22: every placeholder whose path resolves is replaced, blanks included,
\* by the default text of its value, each placeholder of a string by its own
\* value, and the text around the placeholders stays as it was
C22_PlaceholdersReplaced ==
    \A r \in Runs : pc[r] = "interpolated" =>
        \A t \in TemplatePool : AllResolve(t, context[r]) => FilledIn(r, t)

\* C23: a placeholder whose path does not resolve, a segment being reached
\* on something that is not a nested map or a key being absent, is replaced
\* by the text of the path
C23_UnresolvedEchoesPath ==
    \A r \in Runs : pc[r] = "interpolated" =>
        \A t \in TemplatePool : ~AllResolve(t, context[r]) => FilledIn(r, t)

\* no string of the map, at any depth, has the opening delimiter
RECURSIVE NoDelimiter(_)
NoDelimiter(params) ==
    \A key \in DOMAIN params :
        CASE params[key].t = "str" -> IndexPair(params[key].v, "{", 1) = 0
          [] params[key].t = "map" -> NoDelimiter(params[key].v)
          [] OTHER -> TRUE

\* C24: parameters without an opening delimiter come out of interpolation
\* as they went in, and out of a second interpolation as well
C24_NoDelimiterUnchanged ==
    \A r \in Runs :
        NoDelimiter(Given(r)) /\ pc[r] \in {"interpolated", "twice"}
            => Got(r) = Given(r)

\* a map with a nested map, a number and a list has been interpolated twice
C24_Witness ==
    \E r \in Runs :
        /\ pc[r] = "twice"
        /\ NoDelimiter(Given(r))
        /\ \E key \in DOMAIN Given(r) : Given(r)[key].t = "map"
        /\ \E key \in DOMAIN Given(r) : Given(r)[key].t = "int"
        /\ Got(r) = Given(r)

---------------------------------------------------------------------------
(* Claims about playbooks that chain steps *)

\* the result says that the process exited with a code other than zero
NonZeroExit(result) ==
    /\ result.t = "map"
    /\ <<"exit_code">> \in DOMAIN result.v
    /\ result.v[<<"exit_code">>] # IntV(0)

\* the steps stored in the context of run r
StoredSteps(r) ==
    IF <<"steps">> \in DOMAIN context[r].v THEN context[r].v[<<"steps">>].v
    ELSE EmptyMap

\* C26: when the process of a shell_script step exits with a code other
\* than zero, Execute returns an error, the log row ends as failed, and the
\* step counts as failed: under on_failure abort or unset the run stops
\* there and the step never reaches the context
C26_NonZeroExitIsError ==
    \A r \in Runs :
        /\ pc[r] = "returned" /\ call[r].actionType = <<"shell_script">>
              /\ NonZeroExit(call[r].result)
           => /\ call[r].err # Nil
              /\ actionLogs[call[r].row].status = "failed"
        /\ \A i \in DOMAIN playbook[r].steps :
              LET step == playbook[r].steps[i]
              IN /\ step.action = <<"shell_script">>
                 /\ step.on_failure \in {<<>>, <<"abort">>}
                 /\ step.id \in DOMAIN StoredSteps(r)
                 => ~NonZeroExit(StoredSteps(r)[step.id].v[<<"output">>])

\* C27: a parameter written as a placeholder for env.NAME reaches the handler
\* as the value of the environment variable NAME
C27_EnvResolved ==
    \A r \in Runs : \A i \in DOMAIN trace[r] :
        LET step == playbook[r].steps[trace[r][i].step]
        IN \A name \in DOMAIN Environ :
              /\ <<"headers">> \in DOMAIN step.parameters
              /\ step.parameters[<<"headers">>]
                    = Map(<<"Authorization">> :> Str(Tpl(<<"env">> \o name)))
              => trace[r][i].params[<<"headers">>]
                    = Map(<<"Authorization">> :> Str(Environ[name]))

\* the value stored under a key of a step's output
OutputAt(output, key) ==
    IF output.t = "smap" THEN Str(output.v[key]) ELSE output.v[key]

\* the output of a step is a keyed result that has the key
Keyed(output, key) == output.t \in {"map", "smap"} /\ key \in DOMAIN output.v

\* the references a step of the pool makes to the output of an earlier step
OutputRefs ==
    { [lead |-> <<"opened", " ">>, id |-> "open", key |-> "incident_id"],
      [lead |-> <<"told", " ">>, id |-> "tell", key |-> "status"],
      [lead |-> <<"blocked", " ">>, id |-> "block", key |-> "ip_address"] }

\* C30: a placeholder for steps.<id>.output.<key> in the parameters of a
\* later step is replaced by the value under that key of the result the
\* earlier step's handler returned, and every step the run has gone past has
\* its output and its error in the context
C30_OutputKeysResolve ==
    \A r \in Runs :
        /\ \A i \in DOMAIN trace[r] : \A ref \in OutputRefs :
              LET step == playbook[r].steps[trace[r][i].step]
              IN /\ step.parameters
                       = Flat(Render(<< Text(ref.lead),
                                        Hole(<<"steps", ref.id, "output", ref.key>>,
                                             <<" ">>) >>))
                 /\ <<ref.id>> \in DOMAIN StoredSteps(r)
                 /\ Keyed(StoredSteps(r)[<<ref.id>>].v[<<"output">>], <<ref.key>>)
                 => trace[r][i].params
                       = Flat(ref.lead
                              \o Sprintf_v(OutputAt(StoredSteps(r)[<<ref.id>>].v[<<"output">>],
                                                    <<ref.key>>)))
        /\ \A i \in DOMAIN playbook[r].steps :
              pc[r] \in {"loop", "handler", "finish", "returned"} /\ i < stepIdx[r]
              => /\ playbook[r].steps[i].id \in DOMAIN StoredSteps(r)
                 /\ DOMAIN StoredSteps(r)[playbook[r].steps[i].id].v
                       = { <<"output">>, <<"error">> }

---------------------------------------------------------------------------
(* Claims about the audit trail of rule actions *)

\* a step in which an evaluation runs a create_incident or a notify action
\* of a rule adds one row of that action type to the action log
C29_Step ==
    \A e \in DOMAIN evals :
        \A type \in { <<"create_incident">>, <<"notify">> } :
            Ran(e, type)
            => /\ Len(actionLogs') = Len(actionLogs) + 1
               /\ actionLogs'[Len(actionLogs')].action_type = type

\* C29: every action a matched rule fires in detection (create_incident,
\* notify) goes through the action registry and leaves one action log row
C29_RuleActionsLogged == [][C29_Step]_vars

---------------------------------------------------------------------------
(* Claims about the notes of an incident *)

\* no step takes away or rewrites notes an incident already has
C28_Step ==
    \A i \in DOMAIN incidents : IsPrefix(incidents[i].notes, incidents'[i].notes)

\* C28: the notes of an incident are append-only under every interleaving
\* of update_incident actions and PATCH requests: an update adds its notes
\* after the ones the incident has and none is lost
C28_NotesAppendOnly == [][C28_Step]_vars

---------------------------------------------------------------------------
(* Claims about loading the rules again *)

\* the step in which a call of EvaluateEvent reads the rules to range over
Ranges(e) ==
    /\ evals[e].pc = "called"
    /\ evals'[e].pc # "called"
    /\ evals'[e].err = Nil

\* a load that ends leaves exactly the enabled rules of its directory, in
\* the order of the files, and an evaluation that starts its loop after a
\* load has begun ranges over the complete set of before the load or over
\* the complete set of its directory
C25_Step ==
    /\ load.pc = "loop" /\ load'.pc = "done"
       => rules' = loadRuleFiles(load.dir, <<>>)
    /\ \A e \in DOMAIN evals :
          Ranges(e) /\ load.pc # "idle"
          => rules \in { load.old, loadRuleFiles(load.dir, <<>>) }

\* C25: LoadRules replaces the rule set completely and atomically: after
\* a load the set is exactly the enabled rules of the new source in scan
\* order, and an EvaluateEvent running concurrently evaluates against the
\* complete old or the complete new set, never an empty or a partial one
C25_LoadIsAtomic == [][C25_Step]_vars

\* every value of the map that is neither a string nor a nested map is in
\* got what it is in given, at every depth
RECURSIVE PassedThrough(_, _)
PassedThrough(given, got) ==
    /\ DOMAIN got = DOMAIN given
    /\ \A key \in DOMAIN given :
          CASE given[key].t = "str" -> got[key].t = "str"
            [] given[key].t = "map" ->
                  got[key].t = "map" /\ PassedThrough(given[key].v, got[key].v)
            [] OTHER -> got[key] = given[key]

\* the list has a string with a placeholder whose path resolves in ctx
TemplateInList(list, ctx) ==
    /\ list.t = "list"
    /\ \E i \in DOMAIN list.v : \E t \in TemplatePool :
          /\ list.v[i] = Str(Render(t))
          /\ \E j \in DOMAIN t : t[j].hole /\ Resolves(t[j].path, ctx)

---------------------------------------------------------------------------
(* Claims about runs side by side *)

\* the playbook run r was called for, as it was loaded
Loaded(r) == loadFiles(RunsDir, EmptyMap)[args[r].playbookID]

\* run r has got past the validation of its inputs
Started(r) == pc[r] # "idle" /\ <<"inputs">> \in DOMAIN context[r].v

\* C32: ExecutePlaybook changes neither the loaded playbooks nor the
\* inputs map of its caller: whatever runs have been made, the playbooks
\* are as they were loaded, template strings included, and the inputs in the
\* context of a run are the inputs it was called with
C32_DefinitionsUntouched ==
    booted =>
        /\ playbooks = loadFiles(RunsDir, EmptyMap)
        /\ \A r \in DOMAIN pc :
              Started(r) => /\ playbook[r] = Loaded(r)
                            /\ context[r].v[<<"inputs">>] = Map(args[r].inputs)

\* one run has aborted and one has completed, with different inputs for the
\* same playbook, and the completed one got its own address in the place
\* of the template the playbook still holds
C32_Witness ==
    \E r, q \in DOMAIN pc :
        /\ pc[q] = "done" /\ ret[q].err # Nil /\ trace[q] # <<>>
        /\ pc[r] = "done" /\ ret[r].err = Nil
        /\ args[r].playbookID = Alpha.id /\ args[q].playbookID = Alpha.id
        /\ args[r].inputs # args[q].inputs
        /\ trace[r][2].params = (<<"ip_address">> :> args[r].inputs[<<"ip">>])
        /\ playbooks[Alpha.id].steps[2].parameters
              = (<<"ip_address">> :> Str(Render(BlockTemplate)))

\* f on the keys of S only
Restrict(f, S) == [k \in (DOMAIN f) \cap S |-> f[k]]

\* the context run r has built from its own inputs and from the results of
\* its own steps before step k
OwnContext(r, k) ==
    LET before == { Loaded(r).steps[j].id : j \in 1..(k - 1) }
        inputs == <<"inputs">> :> Map(args[r].inputs)
    IN IF k = 1 THEN Map(inputs)
       ELSE Map(inputs @@ (<<"steps">> :> Map(Restrict(StoredSteps(r), before))))

\* the parameters step k of run r is to be called with
OwnParameters(r, k) ==
    LET step == Loaded(r).steps[k]
    IN CASE step.id = <<"block">> ->
              <<"ip_address">> :> Str(Filled(BlockTemplate, OwnContext(r, k)))
         [] step.id \in { <<"tell">>, <<"again">> } ->
              Flat(Filled(TellTemplate, OwnContext(r, k)))
         [] OTHER -> step.parameters

\* C38: the contexts of two runs are apart: the parameters a run hands to
\* a handler are made of its own inputs and of the results of its own
\* earlier steps, whatever another run at the same time was called with or
\* has stored, and two runs that agree on these agree on the parameters
C38_RunsIsolated ==
    \A r \in DOMAIN trace : \A i \in DOMAIN trace[r] :
        /\ trace[r][i].params = OwnParameters(r, trace[r][i].step)
        /\ \A q \in DOMAIN trace :
              /\ i \in DOMAIN trace[q]
              /\ args[q] = args[r]
              /\ trace[q][i].step = trace[r][i].step
              /\ OwnContext(q, trace[q][i].step) = OwnContext(r, trace[r][i].step)
              => trace[q][i].params = trace[r][i].params

\* two runs with different inputs are under way together, one of a playbook
\* that blocks an address and has stored the result, the other of a
\* playbook that never blocks and has announced, path unresolved
C38_Witness ==
    \E r, q \in DOMAIN trace :
        /\ args[r].playbookID = Alpha.id /\ args[q].playbookID = Beta.id
        /\ args[r].inputs # args[q].inputs
        /\ pc[r] \notin {"idle", "done"} /\ pc[q] \notin {"idle", "done"}
        /\ <<"block">> \in DOMAIN StoredSteps(r)
        /\ Len(trace[q]) = 2
        /\ trace[q][2].params
              = Flat(<<"blocked", " ", "steps", ".", "block", ".", "output", ".",
                       "ip_address", " ", "for", " ">> \o args[q].inputs[<<"who">>].v)

---------------------------------------------------------------------------
(* Claims about the loop of interpolateString *)

\* C33: interpolateString terminates for every template string and every
\* context, a context whose values hold placeholders included, so that no
\* run stays inside the interpolation of a step
C33_InterpolationTerminates == \A r \in Runs : pc[r] # "hung"

\* a placeholder of the template resolves to a value whose text holds an
\* opening delimiter
Injected(pieces, ctx) ==
    \E i \in DOMAIN pieces :
        /\ pieces[i].hole
        /\ Resolves(pieces[i].path, ctx)
        /\ IndexPair(Sprintf_v(ValueAt(pieces[i].path, ctx)), "{", 1) # 0

\* C34: interpolation is one pass: when the value put in the place of a
\* placeholder holds placeholder text itself, that text is in the result
\* as it is in the value and is not resolved in its turn
C34_SinglePass ==
    \A r \in Runs : pc[r] = "interpolated" =>
        \A t \in TemplatePool :
            AllResolve(t, context[r]) /\ Injected(t, context[r]) => FilledIn(r, t)

\* C35: a run goes on past a failed step only when the step's on_failure
\* is "continue": after a failed step with on_failure "abort", unset or any
\* other value, such as "retry", no later step is dispatched
C35_OnlyContinueContinues ==
    \A r \in Runs : \A i \in Entries(r) :
        LET e == trace[r][i]
        IN (e.returned /\ e.err # Nil /\ StepOf(r, i).on_failure # <<"continue">>)
           => i = Len(trace[r])

---------------------------------------------------------------------------
(* Claims about the audit trail *)

\* C36: no handler runs without its audit record: whenever a handler has
\* been invoked inside ActionRegistry.Execute, the log row of that dispatch
\* had been stored, also when the database can refuse the insert
C36_NoHandlerWithoutRow ==
    \A r \in Runs : \A i \in Entries(r) :
        trace[r][i].invoked
        => /\ trace[r][i].row \in DOMAIN actionLogs
           /\ actionLogs[trace[r][i].row].action_type = trace[r][i].actionType

---------------------------------------------------------------------------
(* Claims about the status of a resolved incident *)

\* a POST /incidents/:id/resolve for row i has returned success
ResolveReturned(i) ==
    \E u \in Updaters :
        /\ updates[u].kind = "resolve" /\ updates[u].at = i
        /\ updates[u].pc = "done" /\ updates[u].outcome = "updated"

\* the step is the save of a call for row i that gives a status
SavesStatus(i) ==
    \E u \in Updaters :
        /\ updates[u].pc = "read" /\ updates'[u].outcome = "updated"
        /\ updates[u].at = i
        /\ updates[u].kind = "resolve" \/ <<"status">> \in DOMAIN updates[u].body

\* the status of an incident whose resolve has returned leaves resolved
\* only in the save of a call that gives a status
C37_Step ==
    \A i \in DOMAIN incidents :
        /\ ResolveReturned(i)
        /\ incidents[i].status = "resolved"
        /\ incidents'[i].status # "resolved"
        => SavesStatus(i)

\* C37: once the resolve of an incident has returned success its status
\* stays resolved until an operation gives a status: an update_incident or
\* a PATCH that gives notes only, running at the same time, does not put
\* the earlier status back
C37_ResolvedStays == [][C37_Step]_vars

---------------------------------------------------------------------------
(* Claims about the script handlers *)

\* the result reports an exit code of zero and success
ReportsSuccess(result) ==
    /\ result.t = "map"
    /\ {<<"exit_code">>, <<"success">>} \subseteq DOMAIN result.v
    /\ result.v[<<"exit_code">>] = IntV(0)
    /\ result.v[<<"success">>] = BoolV(TRUE)

\* the interpreter the parameters name cannot be started
CannotStart(params) ==
    getStringParam(params, <<"python">>, <<"python3">>) \notin Interpreters

\* C39: a python_script dispatch whose interpreter process could not be
\* started never returns a result with exit_code 0 and success true
C39_SuccessMeansRan ==
    \A r \in Runs :
        pc[r] = "returned" /\ call[r].actionType = <<"python_script">>
            /\ CannotStart(call[r].params)
        => ~ReportsSuccess(call[r].result)

\* the script of the dispatch is an echo of some words
Echoes(params) ==
    LET script == getStringParam(params, <<"script">>, <<>>)
    IN Len(script) > 2 /\ SubSeq(script, 1, 2) = <<"echo", " ">>

\* C40: a shell_script dispatch that returns a result returns in stdout
\* what the script wrote to its standard output
C40_StdoutCaptured ==
    \A r \in Runs :
        pc[r] = "returned" /\ call[r].actionType = <<"shell_script">>
            /\ call[r].result.t = "map" /\ Echoes(call[r].params)
        => \E w \in stdoutOf(getStringParam(call[r].params, <<"script">>, <<>>)) :
               call[r].result.v[<<"stdout">>] = Str(w)

====
